---- MODULE Spec2Model ----
(***************************************************************************)
(* A model of the scanning engine of todototum: the directory walk, the    *)
(* bounded worker pool of ScanDirWithReader (internal/todo/scan.go) and    *)
(* the .gitignore engine (findRepoRoot, loadGitIgnore, gitIgnore.match,    *)
(* matchPattern).  Strings are TLA+ strings, read character by character   *)
(* with SubSeq, so that globbing, trimming and path arithmetic are         *)
(* computed the way the Go code computes them.  Loops over strings and     *)
(* slices are recursive functions.                                         *)
(***************************************************************************)
EXTENDS Naturals, Integers, Sequences, FiniteSets, TLC

(***************************************************************************)
(* Strings.                                                                *)
(***************************************************************************)

\* s[i] of Go, 1-based: the one-character string at position i, and the
\* empty string off the ends of s (the code reads no such position).
Ch(s, i) == IF i >= 1 /\ i <= Len(s) THEN SubSeq(s, i, i) ELSE ""

\* s[n:] of Go.
Drop(s, n) == SubSeq(s, n + 1, Len(s))

\* s[:n] of Go.
Take(s, n) == SubSeq(s, 1, n)

\* The printable ASCII characters in code order: codes 32..95 and 97..126
\* (code 96, the backquote, cannot be written in a TLA+ string and is not a
\* character of the model).
AsciiLo == " !\"#$%&'()*+,-./0123456789:;<=>?@ABCDEFGHIJKLMNOPQRSTUVWXYZ[\\]^_"
AsciiHi == "abcdefghijklmnopqrstuvwxyz{|}~"

\* The characters of the model.
Chars ==
  {Ch(AsciiLo, i) : i \in 1..Len(AsciiLo)} \cup {Ch(AsciiHi, i) : i \in 1..Len(AsciiHi)}
  \cup {"\t", "\n", "\r"}

\* The byte value of each character.
OrdTable ==
  [c \in Chars |->
     IF c = "\t" THEN 9
     ELSE IF c = "\n" THEN 10
     ELSE IF c = "\r" THEN 13
     ELSE IF \E i \in 1..Len(AsciiLo) : Ch(AsciiLo, i) = c
     THEN 31 + (CHOOSE i \in 1..Len(AsciiLo) : Ch(AsciiLo, i) = c)
     ELSE 96 + (CHOOSE i \in 1..Len(AsciiHi) : Ch(AsciiHi, i) = c)]

\* The byte value of a one-character string (0 for the empty string, the
\* zero rune of an unread position).
Ord(c) == IF c = "" THEN 0 ELSE OrdTable[c]

\* unicode.IsSpace on the characters of the model.
IsSpace(c) == c \in {" ", "\t", "\n", "\r"}

TrimLeft[s \in STRING] ==
  IF s # "" /\ IsSpace(Ch(s, 1)) THEN TrimLeft[Drop(s, 1)] ELSE s

TrimRight[s \in STRING] ==
  IF s # "" /\ IsSpace(Ch(s, Len(s))) THEN TrimRight[Take(s, Len(s) - 1)] ELSE s

\* strings.TrimSpace
TrimSpace(s) == TrimRight[TrimLeft[s]]

\* strings.HasPrefix / HasSuffix / TrimPrefix / TrimSuffix
HasPrefix(s, p) == Len(s) >= Len(p) /\ Take(s, Len(p)) = p
HasSuffix(s, p) == Len(s) >= Len(p) /\ Drop(s, Len(s) - Len(p)) = p
TrimPrefix(s, p) == IF HasPrefix(s, p) THEN Drop(s, Len(p)) ELSE s
TrimSuffix(s, p) == IF HasSuffix(s, p) THEN Take(s, Len(s) - Len(p)) ELSE s

\* The first position at or after i where s holds the character c, 0 when
\* there is none.
IndexFrom[s \in STRING, c \in STRING, i \in Nat] ==
  IF i > Len(s) THEN 0
  ELSE IF Ch(s, i) = c THEN i
  ELSE IndexFrom[s, c, i + 1]

\* The last position at or before i where s holds the character c, 0 when
\* there is none.
LastIndexFrom[s \in STRING, c \in STRING, i \in Nat] ==
  IF i = 0 THEN 0
  ELSE IF Ch(s, i) = c THEN i
  ELSE LastIndexFrom[s, c, i - 1]

\* strings.Contains(s, c) and bytealg.IndexByteString(s, c) >= 0, c one character.
Contains(s, c) == IndexFrom[s, c, 1] # 0

\* strings.LastIndex(s, c) + 1
LastIndex(s, c) == LastIndexFrom[s, c, Len(s)]

\* strings.ReplaceAll(s, old, new) for one-character old and new.
ReplaceAll[s \in STRING, old \in STRING, new \in STRING] ==
  IF s = "" THEN ""
  ELSE (IF Ch(s, 1) = old THEN new ELSE Ch(s, 1)) \o ReplaceAll[Drop(s, 1), old, new]

\* strings.ToUpper on ASCII.
UpperTable ==
  [c \in Chars |->
     IF OrdTable[c] >= 97 /\ OrdTable[c] <= 122 THEN Ch(AsciiLo, OrdTable[c] - 32 - 31) ELSE c]

ToUpper[s \in STRING] ==
  IF s = "" THEN "" ELSE UpperTable[Ch(s, 1)] \o ToUpper[Drop(s, 1)]

\* Byte-wise string order, the order os.ReadDir sorts names by.
StrLess[a \in STRING, b \in STRING] ==
  IF b = "" THEN FALSE
  ELSE IF a = "" THEN TRUE
  ELSE IF Ch(a, 1) = Ch(b, 1) THEN StrLess[Drop(a, 1), Drop(b, 1)]
  ELSE Ord(Ch(a, 1)) < Ord(Ch(b, 1))

(***************************************************************************)
(* Paths (Unix build: the separator is "/").                               *)
(***************************************************************************)

\* os.PathSeparator
PathSeparator == "/"

\* strings.Split(s, "/")
SplitSlash[s \in STRING] ==
  IF IndexFrom[s, "/", 1] = 0 THEN <<s>>
  ELSE <<Take(s, IndexFrom[s, "/", 1] - 1)>> \o SplitSlash[Drop(s, IndexFrom[s, "/", 1])]

\* strings.Join(segs, "/")
JoinSlash[segs \in Seq(STRING)] ==
  IF segs = <<>> THEN ""
  ELSE IF Len(segs) = 1 THEN segs[1]
  ELSE segs[1] \o "/" \o JoinSlash[Tail(segs)]

\* The element stack filepath.Clean builds: "" and "." elements are dropped,
\* ".." removes the element before it (and is kept at the start of a path
\* that is not rooted).
CleanSegs[segs \in Seq(STRING), out \in Seq(STRING), rooted \in BOOLEAN] ==
  IF segs = <<>> THEN out
  ELSE IF Head(segs) = "" \/ Head(segs) = "." THEN CleanSegs[Tail(segs), out, rooted]
  ELSE IF Head(segs) = ".."
  THEN IF out # <<>> /\ out[Len(out)] # ".."
       THEN CleanSegs[Tail(segs), SubSeq(out, 1, Len(out) - 1), rooted]
       ELSE IF rooted THEN CleanSegs[Tail(segs), out, rooted]
       ELSE CleanSegs[Tail(segs), Append(out, Head(segs)), rooted]
  ELSE CleanSegs[Tail(segs), Append(out, Head(segs)), rooted]

\* The elements of a cleaned path ("." and "/" have none).
PathSegs[p \in STRING] == CleanSegs[SplitSlash[p], <<>>, Ch(p, 1) = "/"]

\* filepath.Clean
Clean[p \in STRING] ==
  IF p = "" THEN "."
  ELSE IF Ch(p, 1) = "/" THEN "/" \o JoinSlash[PathSegs[p]]
  ELSE IF PathSegs[p] = <<>> THEN "."
  ELSE JoinSlash[PathSegs[p]]

\* filepath.Join(a, b): the non-empty elements joined by the separator, cleaned.
Join(a, b) ==
  IF a = "" /\ b = "" THEN ""
  ELSE IF a = "" THEN Clean[b]
  ELSE IF b = "" THEN Clean[a]
  ELSE Clean[a \o "/" \o b]

\* filepath.Dir: everything up to the last separator, cleaned.
Dir[p \in STRING] == Clean[Take(p, LastIndex(p, "/"))]

StripSlashes[p \in STRING] ==
  IF p # "" /\ Ch(p, Len(p)) = "/" THEN StripSlashes[Take(p, Len(p) - 1)] ELSE p

\* path.Base and filepath.Base
Base[p \in STRING] ==
  IF p = "" THEN "."
  ELSE IF Drop(StripSlashes[p], LastIndex(StripSlashes[p], "/")) = "" THEN "/"
  ELSE Drop(StripSlashes[p], LastIndex(StripSlashes[p], "/"))

\* Length of the longest common prefix of two element lists.
CommonLen[a \in Seq(STRING), b \in Seq(STRING)] ==
  IF a = <<>> \/ b = <<>> \/ Head(a) # Head(b) THEN 0
  ELSE 1 + CommonLen[Tail(a), Tail(b)]

\* filepath.Rel on cleaned paths given by their elements: bs of the base, ts
\* of the target, k elements in common.
RelSegs[bs \in Seq(STRING), ts \in Seq(STRING), k \in Nat] ==
  IF k < Len(bs) /\ bs[k + 1] = ".." THEN ""
  ELSE JoinSlash[[i \in 1..(Len(bs) - k) |-> ".."] \o SubSeq(ts, k + 1, Len(ts))]

\* filepath.Rel(base, targ); the error result is the empty string (the callers
\* drop the error and keep the string).
Rel[base \in STRING, targ \in STRING] ==
  IF Clean[base] = Clean[targ] THEN "."
  ELSE IF (Ch(Clean[base], 1) = "/") # (Ch(Clean[targ], 1) = "/") THEN ""
  ELSE RelSegs[PathSegs[Clean[base]], PathSegs[Clean[targ]],
               CommonLen[PathSegs[Clean[base]], PathSegs[Clean[targ]]]]

(***************************************************************************)
(* path.Match of the Go standard library, as matchPattern calls it.        *)
(***************************************************************************)

\* scanChunk: the leading stars, the chunk up to the next star that is not
\* inside a character class, and the rest of the pattern.  chunkEnd is the
\* scan loop: the position after the chunk.
chunkEnd[pattern \in STRING, i \in Nat, inrange \in BOOLEAN] ==
  IF i > Len(pattern) THEN i
  ELSE IF Ch(pattern, i) = "\\"
  THEN chunkEnd[pattern, IF i + 1 <= Len(pattern) THEN i + 2 ELSE i + 1, inrange]
  ELSE IF Ch(pattern, i) = "[" THEN chunkEnd[pattern, i + 1, TRUE]
  ELSE IF Ch(pattern, i) = "]" THEN chunkEnd[pattern, i + 1, FALSE]
  ELSE IF Ch(pattern, i) = "*" /\ ~inrange THEN i
  ELSE chunkEnd[pattern, i + 1, inrange]

stripStars[pattern \in STRING] ==
  IF pattern # "" /\ Ch(pattern, 1) = "*" THEN stripStars[Drop(pattern, 1)] ELSE pattern

scanChunk[pattern \in STRING] ==
  [star  |-> pattern # "" /\ Ch(pattern, 1) = "*",
   chunk |-> Take(stripStars[pattern], chunkEnd[stripStars[pattern], 1, FALSE] - 1),
   rest  |-> Drop(stripStars[pattern], chunkEnd[stripStars[pattern], 1, FALSE] - 1)]

\* getEsc: one character of a character class, possibly escaped.
getEscFrom(c1) ==
  IF c1 = "" THEN [err |-> TRUE, r |-> "", rest |-> ""]
  ELSE [err |-> Drop(c1, 1) = "", r |-> Ch(c1, 1), rest |-> Drop(c1, 1)]

getEsc[chunk \in STRING] ==
  IF chunk = "" \/ Ch(chunk, 1) = "-" \/ Ch(chunk, 1) = "]"
  THEN [err |-> TRUE, r |-> "", rest |-> ""]
  ELSE getEscFrom(IF Ch(chunk, 1) = "\\" THEN Drop(chunk, 1) ELSE chunk)

\* The upper end of the range that starts with lo: the character after a
\* "-", or lo itself.
getHi(lo) == IF ~lo.err /\ Ch(lo.rest, 1) = "-" THEN getEsc[Drop(lo.rest, 1)] ELSE lo

\* The range loop of a character class: r is the character read from the
\* name; the result says whether a range held r and what follows the "]".
classRanges[chunk \in STRING, r \in STRING, match \in BOOLEAN, nrange \in Nat] ==
  IF chunk # "" /\ Ch(chunk, 1) = "]" /\ nrange > 0
  THEN [err |-> FALSE, match |-> match, rest |-> Drop(chunk, 1)]
  ELSE IF getEsc[chunk].err \/ getHi(getEsc[chunk]).err
  THEN [err |-> TRUE, match |-> FALSE, rest |-> ""]
  ELSE classRanges[getHi(getEsc[chunk]).rest, r,
                   match \/ (Ord(getEsc[chunk].r) <= Ord(r)
                             /\ Ord(r) <= Ord(getHi(getEsc[chunk]).r)),
                   nrange + 1]

\* matchChunk: the chunk against the start of s.  After a failure the chunk is
\* still read to its end, to find a malformed pattern.  chunkStep is one turn
\* of its loop: what is left of the chunk and of s, and whether the match has
\* failed or the pattern is malformed.
chunkAfterClass(cls, s1, failed, negated) ==
  [err |-> cls.err, chunk |-> cls.rest, s |-> s1, failed |-> failed \/ (cls.match = negated)]

chunkStep[chunk \in STRING, s \in STRING, failed \in BOOLEAN] ==
  IF Ch(chunk, 1) = "["
  THEN chunkAfterClass(classRanges[Drop(chunk, IF Ch(chunk, 2) = "^" THEN 2 ELSE 1),
                                   IF failed THEN "" ELSE Ch(s, 1), FALSE, 0],
                       IF failed THEN s ELSE Drop(s, 1), failed, Ch(chunk, 2) = "^")
  ELSE IF Ch(chunk, 1) = "?"
  THEN [err |-> FALSE, chunk |-> Drop(chunk, 1),
        s |-> IF failed THEN s ELSE Drop(s, 1),
        failed |-> failed \/ Ch(s, 1) = "/"]
  ELSE IF Ch(chunk, 1) = "\\" /\ Len(chunk) = 1
  THEN [err |-> TRUE, chunk |-> "", s |-> s, failed |-> failed]
  ELSE [err |-> FALSE,
        chunk |-> Drop(chunk, IF Ch(chunk, 1) = "\\" THEN 2 ELSE 1),
        s |-> IF failed THEN s ELSE Drop(s, 1),
        failed |-> failed \/ (IF Ch(chunk, 1) = "\\" THEN Ch(chunk, 2) ELSE Ch(chunk, 1)) # Ch(s, 1)]

matchChunkFrom[chunk \in STRING, s \in STRING, failed \in BOOLEAN] ==
  IF chunk = ""
  THEN [rest |-> IF failed THEN "" ELSE s, ok |-> ~failed, err |-> FALSE]
  ELSE IF chunkStep[chunk, s, failed \/ s = ""].err
  THEN [rest |-> "", ok |-> FALSE, err |-> TRUE]
  ELSE matchChunkFrom[chunkStep[chunk, s, failed \/ s = ""].chunk,
                      chunkStep[chunk, s, failed \/ s = ""].s,
                      chunkStep[chunk, s, failed \/ s = ""].failed]

matchChunk(chunk, s) == matchChunkFrom[chunk, s, FALSE]

\* The check, before Match answers "no match", that the rest of the pattern is
\* well formed.
restIsBad[pattern \in STRING] ==
  IF pattern = "" THEN FALSE
  ELSE matchChunk(scanChunk[pattern].chunk, "").err \/ restIsBad[scanChunk[pattern].rest]

\* The loop of Match that lets a star swallow i+1 characters of the name,
\* never a separator: "next" with what is left of the name when the chunk
\* matched there (at the end of the name when it is the last chunk), "err"
\* when the chunk is malformed, "fail" when the loop ends without a match.
starLoop[chunk \in STRING, last \in BOOLEAN, name \in STRING, i \in Nat] ==
  IF i >= Len(name) \/ Ch(name, i + 1) = "/" THEN [st |-> "fail", t |-> ""]
  ELSE IF matchChunk(chunk, Drop(name, i + 1)).ok
          /\ ~(last /\ matchChunk(chunk, Drop(name, i + 1)).rest # "")
  THEN [st |-> "next", t |-> matchChunk(chunk, Drop(name, i + 1)).rest]
  ELSE IF matchChunk(chunk, Drop(name, i + 1)).err THEN [st |-> "err", t |-> ""]
  ELSE starLoop[chunk, last, name, i + 1]

\* One turn of the loop of Match: what it goes on with ("next" and the rest
\* of the name) or how it ends ("yes", "no", "err").  sc is the chunk scanned
\* off the pattern, m is matchChunk of that chunk at the start of the name.
matchTurn(sc, m, name) ==
  IF sc.star /\ sc.chunk = ""
  THEN [st |-> IF Contains(name, "/") THEN "no" ELSE "yes", t |-> ""]
  ELSE IF m.ok /\ (m.rest = "" \/ sc.rest # "") THEN [st |-> "next", t |-> m.rest]
  ELSE IF m.err THEN [st |-> "err", t |-> ""]
  ELSE IF sc.star THEN starLoop[sc.chunk, sc.rest = "", name, 0]
  ELSE [st |-> "fail", t |-> ""]

\* How Match ends after the turn that returned turn for the pattern rest.
matchEnd(turn, rest) ==
  IF turn.st = "yes" THEN [matched |-> TRUE, err |-> FALSE]
  ELSE IF turn.st = "no" THEN [matched |-> FALSE, err |-> FALSE]
  ELSE IF turn.st = "err" THEN [matched |-> FALSE, err |-> TRUE]
  ELSE [matched |-> FALSE, err |-> restIsBad[rest]]

\* path.Match(pattern, name): (matched, err).
Match[pattern \in STRING, name \in STRING] ==
  IF pattern = "" THEN [matched |-> name = "", err |-> FALSE]
  ELSE IF matchTurn(scanChunk[pattern], matchChunk(scanChunk[pattern].chunk, name), name).st = "next"
  THEN Match[scanChunk[pattern].rest,
             matchTurn(scanChunk[pattern], matchChunk(scanChunk[pattern].chunk, name), name).t]
  ELSE matchEnd(matchTurn(scanChunk[pattern], matchChunk(scanChunk[pattern].chunk, name), name),
                scanChunk[pattern].rest)

\* A variant of matchPatternOf that takes the answer of path.Match whether
\* or not it came with an error.
matchPatternIgnoringErr(m, pattern, name) == m.matched

\* matchPattern: path.Match, and plain equality when the pattern is malformed.
matchPatternOf(m, pattern, name) == IF m.err THEN pattern = name ELSE m.matched

matchPattern(pattern, name) == matchPatternOf(Match[pattern, name], pattern, name)

(***************************************************************************)
(* bufio.Scanner with the default split function (bufio.ScanLines).        *)
(***************************************************************************)

\* dropCR: a line loses one trailing carriage return.
dropCR(line) == IF line # "" /\ Ch(line, Len(line)) = "\r" THEN Take(line, Len(line) - 1) ELSE line

\* The tokens sc.Scan() delivers for the bytes of data: the text before each
\* newline, and the text after the last newline when it is not empty.
ScanLines[data \in STRING] ==
  IF data = "" THEN <<>>
  ELSE IF IndexFrom[data, "\n", 1] = 0 THEN <<dropCR(data)>>
  ELSE <<dropCR(Take(data, IndexFrom[data, "\n", 1] - 1))>>
       \o ScanLines[Drop(data, IndexFrom[data, "\n", 1])]

(***************************************************************************)
(* The .gitignore engine.                                                  *)
(***************************************************************************)

\* A variant of parseRuleLine that looks for the leading ! after it has
\* stripped the slashes.
parseRuleLineBangLast(text) ==
  LET line0    == TrimSpace(text)
      dirOnly  == HasSuffix(line0, "/")
      line1    == IF dirOnly THEN TrimSuffix(line0, "/") ELSE line0
      anchored == HasPrefix(line1, "/")
      line2    == IF anchored THEN TrimPrefix(line1, "/") ELSE line1
      neg      == HasPrefix(line2, "!")
      line3    == IF neg THEN TrimSpace(Drop(line2, 1)) ELSE line2
  IN IF line0 = "" \/ HasPrefix(line0, "#") THEN <<>>
     ELSE IF line3 = "" THEN <<>>
     ELSE << [pattern  |-> line3,
              negative |-> neg,
              anchored |-> anchored,
              dirOnly  |-> dirOnly,
              hasSlash |-> Contains(line3, "/")] >>

\* The body of the scan loop of loadGitIgnore for one line: the rules it
\* appends, none or one.
parseRuleLine(text) ==
  LET line0    == TrimSpace(text)
      neg      == HasPrefix(line0, "!")
      line1    == IF neg THEN TrimSpace(Drop(line0, 1)) ELSE line0
      dirOnly  == HasSuffix(line1, "/")
      line2    == IF dirOnly THEN TrimSuffix(line1, "/") ELSE line1
      anchored == HasPrefix(line2, "/")
      line3    == IF anchored THEN TrimPrefix(line2, "/") ELSE line2
  IN IF line0 = "" \/ HasPrefix(line0, "#") THEN <<>>
     ELSE IF neg /\ line1 = "" THEN <<>>
     ELSE IF line3 = "" THEN <<>>
     ELSE << [pattern  |-> line3,
              negative |-> neg,
              anchored |-> anchored,
              dirOnly  |-> dirOnly,
              hasSlash |-> Contains(line3, "/")] >>

\* The rules of a sequence of lines, in line order.
parseRules[lines \in Seq(STRING)] ==
  IF lines = <<>> THEN <<>>
  ELSE parseRuleLine(Head(lines)) \o parseRules[Tail(lines)]

\* normalizePath
normalizePath(p) == ReplaceAll[p, PathSeparator, "/"]

\* The suffixes of rel that start right after a separator, in the order the
\* suffix loop of match reaches them.
suffixesFrom[rel \in STRING, i \in Nat] ==
  IF i >= Len(rel) THEN <<>>
  ELSE (IF Ch(rel, i + 1) = "/" /\ i + 1 < Len(rel) THEN <<Drop(rel, i + 1)>> ELSE <<>>)
       \o suffixesFrom[rel, i + 1]

\* A variant of ruleNames that tries every pattern on the whole path.
ruleNamesWhole(r, rel) == <<rel>>

\* A variant of ruleNames that tries an unanchored rule without a slash on
\* the base name and then on every element of the path.
ruleNamesAnySegment(r, rel) ==
  IF r.anchored THEN <<rel>>
  ELSE IF ~r.hasSlash THEN <<Base[rel]>> \o SplitSlash[rel]
  ELSE <<rel>> \o suffixesFrom[rel, 0]

\* A variant of ruleNames that tries an anchored rule on the whole path and
\* on the base name.
ruleNamesAnchoredOnBase(r, rel) ==
  IF r.anchored THEN <<rel, Base[rel]>>
  ELSE IF ~r.hasSlash THEN <<Base[rel]>>
  ELSE <<rel>> \o suffixesFrom[rel, 0]

\* A variant of ruleNames that tries an unanchored rule with a slash on
\* every suffix of the path, wherever it starts.
ruleNamesEverySuffix(r, rel) ==
  IF r.anchored THEN <<rel>>
  ELSE IF ~r.hasSlash THEN <<Base[rel]>>
  ELSE [i \in 1..Len(rel) |-> Drop(rel, i - 1)]

\* The names match tries the pattern of rule r on: the whole path for an
\* anchored rule, the base name for an unanchored rule without a slash,
\* the whole path and then its suffixes for an unanchored rule with a slash.
ruleNames(r, rel) ==
  IF r.anchored THEN <<rel>>
  ELSE IF ~r.hasSlash THEN <<Base[rel]>>
  ELSE <<rel>> \o suffixesFrom[rel, 0]

\* Whether rule r matches: its pattern matches one of its names, or it is an
\* unanchored rule without a slash that equals the base name of a directory.
ruleHitsOn(r, names, isDir) ==
  \/ \E i \in 1..Len(names) : matchPattern(r.pattern, names[i])
  \/ ~r.anchored /\ ~r.hasSlash /\ isDir /\ r.pattern = names[1]

\* A variant of matchRule in which the first rule that matches decides.
matchRuleFirstWins(r, rel, isDir, matched) ==
  IF matched THEN matched
  ELSE IF r.dirOnly /\ ~isDir THEN matched
  ELSE IF ruleHitsOn(r, ruleNames(r, rel), isDir) THEN ~r.negative
  ELSE matched

\* A variant of matchRule that applies a directory-only rule to files too.
matchRuleDirOnlyOnFiles(r, rel, isDir, matched) ==
  IF ruleHitsOn(r, ruleNames(r, rel), isDir) THEN ~r.negative
  ELSE matched

\* One turn of the rule loop of match: the value of matched after rule r.
matchRule(r, rel, isDir, matched) ==
  IF r.dirOnly /\ ~isDir THEN matched
  ELSE IF ruleHitsOn(r, ruleNames(r, rel), isDir) THEN ~r.negative
  ELSE matched

\* The values a rule can take.
Rules ==
  [pattern : STRING, negative : BOOLEAN, anchored : BOOLEAN, dirOnly : BOOLEAN,
   hasSlash : BOOLEAN]

\* The rule loop of match: the value of matched after the last rule.
matchRules[rules \in Seq(Rules), rel \in STRING, isDir \in BOOLEAN, matched \in BOOLEAN] ==
  IF rules = <<>> THEN matched
  ELSE matchRules[Tail(rules), rel, isDir, matchRule(Head(rules), rel, isDir, matched)]

\* gitIgnore.match: g is [nil, root, rules].
match(g, rel, isDir) ==
  IF g.nil THEN FALSE
  ELSE matchRules[g.rules, normalizePath(rel), isDir, FALSE]

(***************************************************************************)
(* The annotation matcher: pattern.FindStringSubmatch.                     *)
(***************************************************************************)

\* The alternatives of the first group of pattern, in the order written.
Keywords == <<"TODO", "FIXME", "BUG", "NOTE">>

\* \w of the regular expression (ASCII).
IsWordCh(c) ==
  /\ c # ""
  /\ \/ (Ord(c) >= 48 /\ Ord(c) <= 57)
     \/ (Ord(c) >= 65 /\ Ord(c) <= 90)
     \/ (Ord(c) >= 97 /\ Ord(c) <= 122)
     \/ c = "_"

\* \b between positions i-1 and i of line (1-based i; Ch is "" off the ends).
WordBoundary(line, i) == IsWordCh(Ch(line, i - 1)) # IsWordCh(Ch(line, i))

\* A variant of KeywordAt without the word boundaries.
KeywordAtAnywhere(line, i, kw) ==
  /\ i + Len(kw) - 1 <= Len(line)
  /\ ToUpper[SubSeq(line, i, i + Len(kw) - 1)] = kw

\* Whether \b(kw)\b matches at position i, any letter case.
KeywordAt(line, i, kw) ==
  /\ i + Len(kw) - 1 <= Len(line)
  /\ ToUpper[SubSeq(line, i, i + Len(kw) - 1)] = kw
  /\ WordBoundary(line, i)
  /\ WordBoundary(line, i + Len(kw))

\* Whether some alternative of the first group matches at position i.
HitAt(line, i) == \E k \in 1..Len(Keywords) : KeywordAt(line, i, Keywords[k])

\* The submatches of the match that starts at position i and whose keyword
\* ends before position after.
SubmatchAt(line, i, after) ==
  [nil |-> FALSE,
   m1  |-> SubSeq(line, i, after - 1),
   m2  |-> Drop(line, after - 1 + (IF Ch(line, after) = ":" THEN 1 ELSE 0))]

\* The first alternative, in the order written, that matches at position i.
FirstKeywordAt(line, i) ==
  Keywords[CHOOSE j \in 1..Len(Keywords) :
             KeywordAt(line, i, Keywords[j])
             /\ \A l \in 1..(j - 1) : ~KeywordAt(line, i, Keywords[l])]

FindFrom(line, hits) ==
  IF hits = {} THEN [nil |-> TRUE, m1 |-> "", m2 |-> ""]
  ELSE LET i == CHOOSE h \in hits : \A g \in hits : h <= g
       IN SubmatchAt(line, i, i + Len(FirstKeywordAt(line, i)))

\* pattern.FindStringSubmatch(line): the leftmost match; m1 is the keyword as
\* written, m2 what follows it and the optional colon (empty when the group
\* does not take part).
FindStringSubmatch(line) == FindFrom(line, {i \in 1..Len(line) : HitAt(line, i)})

(***************************************************************************)
(* The file system the scan reads.  A file system is a function from the   *)
(* absolute path of each entry to its node: a directory or a file with its *)
(* bytes; deny makes opening the file (or listing the directory) fail, and *)
(* ioErr makes reading the file fail once goodLines lines were delivered.  *)
(***************************************************************************)

DirNode == [kind |-> "dir", data |-> "", deny |-> FALSE, ioErr |-> FALSE, goodLines |-> 0]
FileNode(data) == [kind |-> "file", data |-> data, deny |-> FALSE, ioErr |-> FALSE, goodLines |-> 0]
DenyDir == [DirNode EXCEPT !.deny = TRUE]
DenyFile(data) == [FileNode(data) EXCEPT !.deny = TRUE]
BrokenFile(data, n) == [FileNode(data) EXCEPT !.ioErr = TRUE, !.goodLines = n]

\* The absolute path a path names in a process whose working directory is cwd.
AbsPath(cwd, p) == IF HasPrefix(p, "/") THEN Clean[p] ELSE Join(cwd, p)

\* os.Stat(p) succeeds and reports a directory.
StatIsDir(fs, cwd, p) ==
  AbsPath(cwd, p) \in DOMAIN fs /\ fs[AbsPath(cwd, p)].kind = "dir"

\* The names os.ReadDir(p) lists, sorted by name.
SortNames[S \in SUBSET STRING] ==
  IF S = {} THEN <<>>
  ELSE <<CHOOSE a \in S : \A b \in S : a = b \/ StrLess[a, b]>>
       \o SortNames[S \ {CHOOSE a \in S : \A b \in S : a = b \/ StrLess[a, b]}]

ReadDirNames(fs, cwd, p) ==
  SortNames[{Base[q] : q \in {e \in DOMAIN fs : e # AbsPath(cwd, p) /\ Dir[e] = AbsPath(cwd, p)}}]

\* The bytes read from a node and whether the read ended in an error: a
\* directory opens but does not read.
ReadNode(node) ==
  IF node.kind = "dir" THEN [lines |-> <<>>, err |-> TRUE]
  ELSE IF node.ioErr
  THEN [lines |-> SubSeq(ScanLines[node.data], 1,
                         IF node.goodLines < Len(ScanLines[node.data])
                         THEN node.goodLines ELSE Len(ScanLines[node.data])),
        err   |-> TRUE]
  ELSE [lines |-> ScanLines[node.data], err |-> FALSE]

\* OSFileReader.Open(name) followed by reading the stream to its end:
\* (opened, lines, read error).
OSOpen(fs, cwd, name) ==
  IF AbsPath(cwd, name) \notin DOMAIN fs \/ fs[AbsPath(cwd, name)].deny
  THEN [ok |-> FALSE, lines |-> <<>>, err |-> TRUE]
  ELSE [ok    |-> TRUE,
        lines |-> ReadNode(fs[AbsPath(cwd, name)]).lines,
        err   |-> ReadNode(fs[AbsPath(cwd, name)]).err]

\* mockFileReader.Open(name) of the tests: the content stored under name,
\* else the content stored under the base name of name, else os.ErrNotExist.
\* files is the map of the mock, a function from identifiers to contents.
MockOpen(files, name) ==
  IF name \in DOMAIN files
  THEN [ok |-> TRUE, lines |-> ScanLines[files[name]], err |-> FALSE]
  ELSE IF Base[name] \in DOMAIN files
  THEN [ok |-> TRUE, lines |-> ScanLines[files[Base[name]]], err |-> FALSE]
  ELSE [ok |-> FALSE, lines |-> <<>>, err |-> TRUE]

(***************************************************************************)
(* findRepoRoot and loadGitIgnore.                                         *)
(***************************************************************************)

\* findRepoRoot(start): the nearest directory, from start upwards, that holds
\* a directory .git; start itself when the climb reaches a path that is its
\* own parent.
findRepoRoot(fs, cwd, start) ==
  LET climb[d \in STRING] ==
        IF StatIsDir(fs, cwd, Join(d, ".git")) THEN d
        ELSE IF Dir[d] = d THEN start
        ELSE climb[Dir[d]]
  IN climb[start]

\* A variant of loadGitIgnore that falls back to the rule file of the
\* directory above base when base/.gitignore does not open.
loadGitIgnoreFromAbove(fs, cwd, base) ==
  LET own   == OSOpen(fs, cwd, Join(base, ".gitignore"))
      above == OSOpen(fs, cwd, Join(Dir[base], ".gitignore"))
  IN IF own.ok THEN [nil |-> FALSE, root |-> base, rules |-> parseRules[own.lines]]
     ELSE IF above.ok THEN [nil |-> FALSE, root |-> Dir[base], rules |-> parseRules[above.lines]]
     ELSE [nil |-> TRUE, root |-> "", rules |-> <<>>]

\* A variant of loadGitIgnore that puts the rule of each line in front of
\* the rules of the lines before it.
loadGitIgnoreNewestFirst(fs, cwd, base) ==
  IF ~OSOpen(fs, cwd, Join(base, ".gitignore")).ok
  THEN [nil |-> TRUE, root |-> "", rules |-> <<>>]
  ELSE [nil |-> FALSE, root |-> base,
        rules |-> LET rs == parseRules[OSOpen(fs, cwd, Join(base, ".gitignore")).lines]
                  IN [i \in 1..Len(rs) |-> rs[Len(rs) + 1 - i]]]

\* loadGitIgnore(base): nil when base/.gitignore does not open; otherwise the
\* rules of the lines read (a read error ends the lines and is dropped).
loadGitIgnore(fs, cwd, base) ==
  IF ~OSOpen(fs, cwd, Join(base, ".gitignore")).ok
  THEN [nil |-> TRUE, root |-> "", rules |-> <<>>]
  ELSE [nil |-> FALSE, root |-> base,
        rules |-> parseRules[OSOpen(fs, cwd, Join(base, ".gitignore")).lines]]

(***************************************************************************)
(* scanFileWithReader.                                                     *)
(***************************************************************************)

\* The loop over the lines of one file: the records of the matching lines,
\* numbered from 1, in line order.
lineTodo(m, lineNum, path) ==
  IF m.nil THEN <<>>
  ELSE << [File |-> path, Line |-> lineNum, Tag |-> ToUpper[m.m1], Text |-> TrimSpace(m.m2)] >>

scanLinesFrom[lines \in Seq(STRING), lineNum \in Nat, path \in STRING] ==
  IF lines = <<>> THEN <<>>
  ELSE lineTodo(FindStringSubmatch(Head(lines)), lineNum + 1, path)
       \o scanLinesFrom[Tail(lines), lineNum + 1, path]

\* scanFileWithReader(path, reader) given what the reader's Open returned.
scanFileWithReader(path, opened) ==
  IF ~opened.ok THEN [todos |-> <<>>, err |-> TRUE]
  ELSE [todos |-> scanLinesFrom[opened.lines, 0, path], err |-> opened.err]

(***************************************************************************)
(* The inputs of a scan: a file system, the working directory, and the     *)
(* arguments root, ignoreDirs and reader of ScanDirWithReader.             *)
(***************************************************************************)

\* Largest runtime.NumCPU() of the model.
MaxCPU == 3

\* Number of files of the wide tree, more than the queue holds.
WideFiles == 65

\* Capacity of the jobs channel.
QueueCap == 64

RepoFS ==
  ("/r" :> DirNode)
  @@ ("/r/.git" :> DirNode)
  @@ ("/r/.git/config" :> FileNode("# TODO: not scanned\n"))
  @@ ("/r/.gitignore" :> FileNode("vendor/\n*.tmp\n!keep.tmp\n!.git\n!gen\n"))
  @@ ("/r/drop.tmp" :> FileNode("# TODO: drop this\n"))
  @@ ("/r/keep.tmp" :> FileNode("hello\n# TODO: keep this\n"))
  @@ ("/r/src" :> DirNode)
  @@ ("/r/src/.git" :> DirNode)
  @@ ("/r/src/.git/HEAD" :> FileNode("fixme\n"))
  @@ ("/r/src/b.go" :> FileNode("package x\n// FIXME: two\n//todo no colon\n"))
  @@ ("/r/src/gen" :> DirNode)
  @@ ("/r/src/gen/g.go" :> FileNode("// NOTE: generated\n"))
  @@ ("/r/src/vendor" :> DirNode)
  @@ ("/r/src/vendor/w.go" :> FileNode("// BUG: deep vendor\n"))
  @@ ("/r/vendor" :> DirNode)
  @@ ("/r/vendor/lib" :> DirNode)
  @@ ("/r/vendor/lib/v.go" :> FileNode("// NOTE: vendored\n"))

PlainFS ==
  ("/p" :> DirNode)
  @@ ("/p/b" :> DirNode)
  @@ ("/p/b/c.go" :> FileNode("note\n-- Note: clarify\r\nnotes\n"))
  @@ ("/p/e.txt" :> FileNode(""))
  @@ ("/p/main.go" :> FileNode("// TODO: refactor\nx := 1\n// NOTE: perf"))
  @@ ("/p/vendor" :> DirNode)
  @@ ("/p/vendor/ignore.go" :> FileNode("// FIXME: skip me"))

FaultFS ==
  ("/x" :> DirNode)
  @@ ("/x/a.go" :> DenyFile("// TODO: cannot be opened\n"))
  @@ ("/x/b.go" :> BrokenFile("// BUG: read before the failure\nx\n// NOTE: never read\n", 2))
  @@ ("/x/c.go" :> FileNode("// FIXME: fine\n"))
  @@ ("/x/d" :> DenyDir)
  @@ ("/x/d/y.go" :> FileNode("// TODO: below an unreadable directory\n"))
  @@ ("/x/e" :> DirNode)
  @@ ("/x/e/z.go" :> FileNode("// TODO: after the unreadable directory\n"))

LockedFS ==
  ("/l" :> DenyDir)
  @@ ("/l/a.go" :> FileNode("// TODO: behind a locked root\n"))

\* A tree outside any repository with a rule file in its root.
StrayFS ==
  ("/n" :> DirNode)
  @@ ("/n/.gitignore" :> FileNode("*.tmp\nbuild/\n"))
  @@ ("/n/a.go" :> FileNode("// TODO: kept\n"))
  @@ ("/n/build" :> DirNode)
  @@ ("/n/build/out.go" :> FileNode("// NOTE: built\n"))
  @@ ("/n/x.tmp" :> FileNode("// FIXME: temp\n"))

\* A repository whose rule file cannot be opened.
SealedFS ==
  ("/s" :> DirNode)
  @@ ("/s/.git" :> DirNode)
  @@ ("/s/.git/config" :> FileNode("# TODO: not scanned\n"))
  @@ ("/s/.gitignore" :> DenyFile("*.go\n"))
  @@ ("/s/a.go" :> FileNode("// TODO: kept\n"))
  @@ ("/s/gen" :> DirNode)
  @@ ("/s/gen/g.go" :> FileNode("// NOTE: generated\n"))

\* Two repositories whose rules match the path "." of their own root.
HiddenFS ==
  ("/h" :> DirNode)
  @@ ("/h/.git" :> DirNode)
  @@ ("/h/.gitignore" :> FileNode("*\n"))
  @@ ("/h/a.go" :> FileNode("// TODO: behind the star\n"))
  @@ ("/k" :> DirNode)
  @@ ("/k/.git" :> DirNode)
  @@ ("/k/.gitignore" :> FileNode(".*\n"))
  @@ ("/k/a.go" :> FileNode("// TODO: behind the dot\n"))

\* A repository whose rules exclude a directory and then re-include a file
\* below it.
BuildFS ==
  ("/b" :> DirNode)
  @@ ("/b/.git" :> DirNode)
  @@ ("/b/.git/config" :> FileNode("# TODO: not scanned\n"))
  @@ ("/b/.gitignore" :> FileNode("build/\n!build/keep.go\n"))
  @@ ("/b/build" :> DirNode)
  @@ ("/b/build/keep.go" :> FileNode("// TODO: re-included by name\n"))
  @@ ("/b/build/out.go" :> FileNode("// NOTE: built\n"))
  @@ ("/b/main.go" :> FileNode("// FIXME: kept\n"))
  @@ ("/b/tmp" :> DirNode)
  @@ ("/b/tmp/t.go" :> FileNode("// BUG: temporary\n"))

Digits == "0123456789"
WideName(k) == "f" \o Ch(Digits, (k \div 10) + 1) \o Ch(Digits, (k % 10) + 1)

WideFS ==
  [p \in {"/q"} \cup {"/q/" \o WideName(k) : k \in 1..WideFiles} |->
     IF p = "/q" THEN DirNode
     ELSE IF p = "/q/" \o WideName(1) THEN FileNode("// TODO: first\n")
     ELSE FileNode("")]

In(fs, cwd, root, ignoreDirs, reader) ==
  [fs |-> fs, cwd |-> cwd, root |-> root, ignoreDirs |-> ignoreDirs, reader |-> reader]

\* The scans of the model, by number.
Scenarios ==
  << In(PlainFS, "/", "/p", <<>>, "os"),
     In(PlainFS, "/", "/p", <<" vendor ", "b">>, "mock"),
     In(RepoFS, "/", "/r", <<>>, "os"),
     In(RepoFS, "/r", "src", <<" gen">>, "os"),
     In(FaultFS, "/", "/x", <<>>, "os"),
     In(LockedFS, "/", "/l", <<>>, "os"),
     In(PlainFS, "/", "/missing", <<>>, "os"),
     In(PlainFS, "/", "/p/main.go", <<>>, "os"),
     In(RepoFS, "/", "/r/vendor/lib", <<>>, "os"),
     In(RepoFS, "/", "/r", <<"gen\t", " lib">>, "os"),
     In(PlainFS, "/p", ".", <<>>, "os"),
     In(StrayFS, "/", "/n", <<>>, "os"),
     In(SealedFS, "/", "/s", <<"gen">>, "os"),
     In(BuildFS, "/", "/b", <<"tmp">>, "os"),
     In(RepoFS, "/", "/r/.git", <<>>, "os"),
     In(PlainFS, "/", "/p/vendor", <<"b", "vendor ">>, "os"),
     In(RepoFS, "/", "/r/vendor", <<>>, "os"),
     In(HiddenFS, "/", "/h", <<>>, "os"),
     In(HiddenFS, "/", "/k", <<>>, "os"),
     In(PlainFS, "/p/vendor", ".", <<"vendor">>, "os"),
     In(WideFS, "/", "/q", <<>>, "os") >>

\* The scan of the wide tree is the last one; the others are the small scans.
WideScenario == Len(Scenarios)
SmallScenarios == 1..(Len(Scenarios) - 1)

\* The files map of the mock reader of a scan: every file below root that
\* can be opened, under its path relative to root.
MockFiles(in) ==
  LET r     == AbsPath(in.cwd, in.root)
      below == {p \in DOMAIN in.fs :
                  /\ in.fs[p].kind = "file" /\ ~in.fs[p].deny
                  /\ HasPrefix(p, r \o "/")}
  IN [k \in {Rel[r, p] : p \in below} |-> in.fs[Join(r, k)].data]

\* reader.Open(name) for the reader of a scan, read to the end.
ReaderOpen(in, name) ==
  IF in.reader = "os" THEN OSOpen(in.fs, in.cwd, name)
  ELSE MockOpen(MockFiles(in), name)

(***************************************************************************)
(* The parts of a scan that depend on its inputs only, computed once for   *)
(* every scan of the model: the values the walk callback captures, what    *)
(* filepath.WalkDir finds at each path and what the callback answers       *)
(* there, and what scanFileWithReader returns for each job.                *)
(***************************************************************************)

\* A variant of SkipSet that keeps the entries as given.
SkipSetUntrimmed(ignoreDirs) == {ignoreDirs[i] : i \in 1..Len(ignoreDirs)}

\* The ignore set, lines 34-37: every entry of ignoreDirs, trimmed.
SkipSet(ignoreDirs) == {TrimSpace(ignoreDirs[i]) : i \in 1..Len(ignoreDirs)}

\* Lines 34-41: skip, repoRoot and gi.
Locals(in) ==
  [skip     |-> SkipSet(in.ignoreDirs),
   repoRoot |-> findRepoRoot(in.fs, in.cwd, in.root),
   gi       |-> loadGitIgnore(in.fs, in.cwd, findRepoRoot(in.fs, in.cwd, in.root))]

LocalsOf == [s \in DOMAIN Scenarios |-> Locals(Scenarios[s])]

\* A variant of WalkFnDir without the check of lines 85-87: the rules decide
\* about a directory named .git as about any other.
WalkFnDirByRules(loc, path, name) ==
  IF name \in loc.skip THEN "SkipDir"
  ELSE IF ~loc.gi.nil /\ match(loc.gi, Rel[loc.repoRoot, path], TRUE) THEN "SkipDir"
  ELSE "nil"

\* The walk callback (lines 78-121) for an entry that is a directory; loc
\* holds the captured skip, repoRoot and gi.
WalkFnDir(loc, path, name) ==
  IF name = ".git" THEN "SkipDir"
  ELSE IF name \in loc.skip THEN "SkipDir"
  ELSE IF ~loc.gi.nil /\ match(loc.gi, Rel[loc.repoRoot, path], TRUE) THEN "SkipDir"
  ELSE "nil"

\* The job of lines 102-119 for a file: its display path and the path the
\* reader opens.
JobFor(in, path) ==
  [rel  |-> Rel[in.root, path],
   open |-> IF in.reader = "os" THEN path ELSE Rel[in.root, path]]

\* A variant of WalkFnFile that also drops a file when the rules exclude,
\* as a directory, one of the directories its path relative to the
\* repository root leads through.
WalkFnFileByAncestors(in, loc, path) ==
  LET rel == Rel[loc.repoRoot, path]
  IN IF ~loc.gi.nil
        /\ \/ match(loc.gi, rel, FALSE)
           \/ \E i \in 2..Len(rel) : Ch(rel, i) = "/" /\ match(loc.gi, Take(rel, i - 1), TRUE)
     THEN <<>>
     ELSE <<JobFor(in, path)>>

\* The walk callback for an entry that is not a directory: the job it sends,
\* or none when the rules exclude the file.
WalkFnFile(in, loc, path) ==
  IF ~loc.gi.nil /\ match(loc.gi, Rel[loc.repoRoot, path], FALSE) THEN <<>>
  ELSE <<JobFor(in, path)>>

\* A variant of WalkFnErr that hands the error back to WalkDir.
WalkFnErrReturned(err) == err

\* The walk callback called with an error (lines 79-82): what it returns.
WalkFnErr(err) == "nil"

\* What os.Lstat reports for a path: "none", "dir" or "file".
KindOf(in, path) ==
  IF AbsPath(in.cwd, path) \notin DOMAIN in.fs THEN "none"
  ELSE in.fs[AbsPath(in.cwd, path)].kind

\* Whether listing the directory at path fails.
Unreadable(in, path) ==
  KindOf(in, path) = "dir" /\ in.fs[AbsPath(in.cwd, path)].deny

\* The paths of the entries of the directory at path, as WalkDir passes them
\* to the callback, in the order of os.ReadDir.
ChildPaths(path, names) == [i \in 1..Len(names) |-> Join(path, names[i])]

Children(in, path) ==
  IF KindOf(in, path) = "dir" /\ ~Unreadable(in, path)
  THEN ChildPaths(path, ReadDirNames(in.fs, in.cwd, path))
  ELSE <<>>

\* Every path WalkDir(root) can pass to the callback.
WalkPaths(in) ==
  LET all[pend \in Seq(STRING)] ==
        IF pend = <<>> THEN {}
        ELSE {Head(pend)} \cup all[Children(in, Head(pend)) \o Tail(pend)]
  IN all[<<in.root>>]

\* A variant of EntryAt in which the callback lets the root pass without
\* its checks.
EntryAtRootExempt(in, loc, path) ==
  [kind       |-> KindOf(in, path),
   unreadable |-> Unreadable(in, path),
   children   |-> Children(in, path),
   dirRes     |-> IF KindOf(in, path) = "dir" /\ path # in.root
                  THEN WalkFnDir(loc, path, Base[path]) ELSE "nil",
   send       |-> IF KindOf(in, path) = "file" THEN WalkFnFile(in, loc, path) ELSE <<>>]

\* What WalkDir finds at path and what the callback answers there.
EntryAt(in, loc, path) ==
  [kind       |-> KindOf(in, path),
   unreadable |-> Unreadable(in, path),
   children   |-> Children(in, path),
   dirRes     |-> IF KindOf(in, path) = "dir" THEN WalkFnDir(loc, path, Base[path]) ELSE "nil",
   send       |-> IF KindOf(in, path) = "file" THEN WalkFnFile(in, loc, path) ELSE <<>>]

Walked ==
  [s \in DOMAIN Scenarios |->
     [p \in WalkPaths(Scenarios[s]) |-> EntryAt(Scenarios[s], LocalsOf[s], p)]]

\* The paths the jobs of a scan ask the reader to open.
OpenNames(entries) ==
  {entries[p].send[1].open : p \in {q \in DOMAIN entries : entries[q].send # <<>>}}

\* scanFileWithReader(job.open, reader) for every job of every scan.
Scanned ==
  [s \in DOMAIN Scenarios |->
     [name \in OpenNames(Walked[s]) |->
        scanFileWithReader(name, ReaderOpen(Scenarios[s], name))]]

(***************************************************************************)
(* ScanDirWithReader: the main goroutine (setup, walk, close, wait) and    *)
(* the workers.                                                            *)
(***************************************************************************)

VARIABLES
  scn,       \* which scan of Scenarios this is
  workers,   \* number of worker goroutines
  pcMain,    \* "setup", "walk", "wait", "done"
  skip,      \* the set of ignored directory names
  repoRoot,  \* findRepoRoot(root)
  gi,        \* loadGitIgnore(repoRoot)
  pending,   \* the entries WalkDir has still to pass to the callback, next first
  walkErr,   \* the error WalkDir returns: "nil" or an error
  jobs,      \* the content of the jobs channel
  closed,    \* whether the jobs channel is closed
  wg,        \* the WaitGroup counter
  mu,        \* the holder of the mutex, 0 when it is free
  todos,     \* the shared result slice
  wpc,       \* each worker's position: "idle", "recv", "scan", "lock", "append", "unlock", "exited"
  wjob,      \* each worker's current job
  wtodos,    \* each worker's fileTodos
  ret,       \* what ScanDirWithReader returned
  visited,   \* history: the paths passed to the walk callback
  sent,      \* history: the jobs sent on the channel, in order
  rcvd,      \* history: the jobs received from the channel, in order
  call,      \* the arguments of a direct call of a function of the rule engine
  result     \* whether that call has returned, and what it returned

vars == <<scn, workers, pcMain, skip, repoRoot, gi, pending, walkErr, jobs, closed,
          wg, mu, todos, wpc, wjob, wtodos, ret, visited, sent, rcvd, call, result>>

Input == Scenarios[scn]

\* workers := runtime.NumCPU(); if workers < 2 { workers = 2 }
PoolSize(numCPU) == IF numCPU < 2 THEN 2 ELSE numCPU

MaxWorkers == PoolSize(MaxCPU)

NoJob == [rel |-> "", open |-> ""]
NilGitIgnore == [nil |-> TRUE, root |-> "", rules |-> <<>>]

\* No direct call of a function, and no result.
NoCall == [fn |-> "none"]
NoResult == [returned |-> FALSE, value |-> FALSE]

\* The state in which ScanDirWithReader is entered, for the scans ids on
\* machines whose runtime.NumCPU() is in cpus.
ScanInit(ids, cpus) ==
  /\ scn \in ids
  /\ workers \in {PoolSize(n) : n \in cpus}
  /\ pcMain = "setup"
  /\ skip = {}
  /\ repoRoot = ""
  /\ gi = NilGitIgnore
  /\ pending = <<>>
  /\ walkErr = "nil"
  /\ jobs = <<>>
  /\ closed = FALSE
  /\ wg = 0
  /\ mu = 0
  /\ todos = <<>>
  /\ wpc = [w \in 1..MaxWorkers |-> "idle"]
  /\ wjob = [w \in 1..MaxWorkers |-> NoJob]
  /\ wtodos = [w \in 1..MaxWorkers |-> <<>>]
  /\ ret = [returned |-> FALSE, todos |-> <<>>, err |-> "nil"]
  /\ visited = {}
  /\ sent = <<>>
  /\ rcvd = <<>>

InitWith(ids, cpus) == ScanInit(ids, cpus) /\ call = NoCall /\ result = NoResult

Init == InitWith(SmallScenarios, 1..MaxCPU)

\* Lines 34-75: the ignore set, the repo root, the rules, the channel, and
\* the worker goroutines started.
Setup ==
  /\ pcMain = "setup"
  /\ skip' = LocalsOf[scn].skip
  /\ repoRoot' = LocalsOf[scn].repoRoot
  /\ gi' = LocalsOf[scn].gi
  /\ wg' = workers
  /\ wpc' = [w \in 1..MaxWorkers |-> IF w <= workers THEN "recv" ELSE "idle"]
  /\ pending' = <<Input.root>>
  /\ pcMain' = "walk"
  /\ UNCHANGED <<scn, workers, walkErr, jobs, closed, mu, todos, wjob, wtodos, ret,
                 visited, sent, rcvd, call, result>>

\* A variant of PendingAfter in which WalkDir descends into a directory
\* whatever the callback returned for it.
PendingAfterDescending(path, isDir, res, children, rest) ==
  IF res = "nil" \/ (res = "SkipDir" /\ isDir) THEN children \o rest
  ELSE IF res = "SkipDir" THEN SelectSeq(rest, LAMBDA q : Dir[q] # Dir[path])
  ELSE <<>>

\* The entries WalkDir goes on to after the callback returned res for path:
\* the children of a directory that was not skipped and can be listed, then
\* what was pending; after SkipDir from a file, the pending entries outside
\* the file's directory; nothing after an error.
PendingAfter(path, isDir, res, children, rest) ==
  IF res = "nil" THEN children \o rest
  ELSE IF res = "SkipDir"
  THEN IF isDir THEN rest
       ELSE SelectSeq(rest, LAMBDA q : Dir[q] # Dir[path])
  ELSE <<>>

\* The error WalkDir returns after the callback returned res.
ErrAfter(res) == IF res = "nil" \/ res = "SkipDir" THEN walkErr ELSE res

\* What the callback returns for a directory: its answer to the entry and,
\* when that is nil and the directory cannot be listed, its answer to the
\* second call, which reports the error of ReadDir.
DirAnswer(e) == IF e.dirRes = "nil" /\ e.unreadable THEN WalkFnErr("EACCES") ELSE e.dirRes

\* A variant of WalkAt whose send never blocks, as on a channel without a
\* capacity.
WalkAtUnbounded(path, rest, e) ==
  /\ visited' = visited \cup {path}
  /\ IF e.kind = "none"
     THEN /\ pending' = PendingAfter(path, FALSE, WalkFnErr("ENOENT"), <<>>, <<>>)
          /\ walkErr' = ErrAfter(WalkFnErr("ENOENT"))
          /\ UNCHANGED <<jobs, sent>>
     ELSE IF e.kind = "dir"
     THEN /\ pending' = PendingAfter(path, TRUE, DirAnswer(e), e.children, rest)
          /\ walkErr' = ErrAfter(DirAnswer(e))
          /\ UNCHANGED <<jobs, sent>>
     ELSE /\ jobs' = jobs \o e.send
          /\ sent' = sent \o e.send
          /\ pending' = PendingAfter(path, FALSE, "nil", <<>>, rest)
          /\ walkErr' = ErrAfter("nil")

\* One call of the walk callback by filepath.WalkDir, and WalkDir's reaction.
\* A root that Lstat cannot find is reported to the callback with the error.
\* The send of line 119 blocks while the channel is full.
WalkAt(path, rest, e) ==
  /\ visited' = visited \cup {path}
  /\ IF e.kind = "none"
     THEN /\ pending' = PendingAfter(path, FALSE, WalkFnErr("ENOENT"), <<>>, <<>>)
          /\ walkErr' = ErrAfter(WalkFnErr("ENOENT"))
          /\ UNCHANGED <<jobs, sent>>
     ELSE IF e.kind = "dir"
     THEN /\ pending' = PendingAfter(path, TRUE, DirAnswer(e), e.children, rest)
          /\ walkErr' = ErrAfter(DirAnswer(e))
          /\ UNCHANGED <<jobs, sent>>
     ELSE /\ e.send # <<>> => Len(jobs) < QueueCap
          /\ jobs' = jobs \o e.send
          /\ sent' = sent \o e.send
          /\ pending' = PendingAfter(path, FALSE, "nil", <<>>, rest)
          /\ walkErr' = ErrAfter("nil")

WalkStep ==
  /\ pcMain = "walk"
  /\ pending # <<>>
  /\ WalkAt(Head(pending), Tail(pending), Walked[scn][Head(pending)])
  /\ UNCHANGED <<scn, workers, pcMain, skip, repoRoot, gi, closed, wg, mu, todos, wpc,
                 wjob, wtodos, ret, rcvd, call, result>>

\* A variant of CloseJobs that goes on to wg.Wait() and leaves the channel
\* open.
CloseJobsForgotten ==
  /\ pcMain = "walk"
  /\ pending = <<>>
  /\ closed' = FALSE
  /\ pcMain' = "wait"
  /\ UNCHANGED <<scn, workers, skip, repoRoot, gi, pending, walkErr, jobs, wg, mu,
                 todos, wpc, wjob, wtodos, ret, visited, sent, rcvd, call, result>>

\* Line 123: close(jobs), once WalkDir has returned.
CloseJobs ==
  /\ pcMain = "walk"
  /\ pending = <<>>
  /\ closed' = TRUE
  /\ pcMain' = "wait"
  /\ UNCHANGED <<scn, workers, skip, repoRoot, gi, pending, walkErr, jobs, wg, mu,
                 todos, wpc, wjob, wtodos, ret, visited, sent, rcvd, call, result>>

\* A variant of WaitReturn without wg.Wait(): the return value is taken
\* while workers may still be running.
WaitReturnEarly ==
  /\ pcMain = "wait"
  /\ ret' = [returned |-> TRUE, todos |-> todos, err |-> walkErr]
  /\ pcMain' = "done"
  /\ UNCHANGED <<scn, workers, skip, repoRoot, gi, pending, walkErr, jobs, closed, wg,
                 mu, todos, wpc, wjob, wtodos, visited, sent, rcvd, call, result>>

\* Lines 124-126: wg.Wait() returns when the counter is zero; return todos, err.
WaitReturn ==
  /\ pcMain = "wait"
  /\ wg = 0
  /\ ret' = [returned |-> TRUE, todos |-> todos, err |-> walkErr]
  /\ pcMain' = "done"
  /\ UNCHANGED <<scn, workers, skip, repoRoot, gi, pending, walkErr, jobs, closed, wg,
                 mu, todos, wpc, wjob, wtodos, visited, sent, rcvd, call, result>>

\* Line 63: for job := range jobs receives the next job.
WorkerRecv(w) ==
  /\ wpc[w] = "recv"
  /\ jobs # <<>>
  /\ wjob' = [wjob EXCEPT ![w] = Head(jobs)]
  /\ jobs' = Tail(jobs)
  /\ rcvd' = Append(rcvd, Head(jobs))
  /\ wpc' = [wpc EXCEPT ![w] = "scan"]
  /\ UNCHANGED <<scn, workers, pcMain, skip, repoRoot, gi, pending, walkErr, closed, wg,
                 mu, todos, wtodos, ret, visited, sent, call, result>>

\* A variant of WorkerExit that leaves the loop as soon as it finds the
\* channel empty, closed or not.
WorkerExitOnEmpty(w) ==
  /\ wpc[w] = "recv"
  /\ jobs = <<>>
  /\ wpc' = [wpc EXCEPT ![w] = "exited"]
  /\ wg' = wg - 1
  /\ UNCHANGED <<scn, workers, pcMain, skip, repoRoot, gi, pending, walkErr, jobs,
                 closed, mu, todos, wjob, wtodos, ret, visited, sent, rcvd, call,
                 result>>

\* Lines 62-63: the range loop ends when the channel is closed and empty, and
\* the deferred wg.Done() runs.
WorkerExit(w) ==
  /\ wpc[w] = "recv"
  /\ jobs = <<>>
  /\ closed
  /\ wpc' = [wpc EXCEPT ![w] = "exited"]
  /\ wg' = wg - 1
  /\ UNCHANGED <<scn, workers, pcMain, skip, repoRoot, gi, pending, walkErr, jobs,
                 closed, mu, todos, wjob, wtodos, ret, visited, sent, rcvd, call,
                 result>>

\* A variant of Relabel that leaves File as scanFileWithReader set it.
RelabelKeepsOpenPath(fileTodos, rel) == fileTodos

\* for i := range fileTodos { fileTodos[i].File = job.rel }
Relabel(fileTodos, rel) == [i \in 1..Len(fileTodos) |-> [fileTodos[i] EXCEPT !.File = rel]]

\* A variant of Keeps that disregards the error of scanFileWithReader.
KeepsDespiteError(res) == Len(res.todos) > 0

\* Whether the worker goes on to merge the result of scanFileWithReader.
Keeps(res) == ~res.err /\ Len(res.todos) > 0

\* Lines 64-68: the file is scanned and its records get the job's display path.
WorkerScan(w) ==
  /\ wpc[w] = "scan"
  /\ IF Keeps(Scanned[scn][wjob[w].open])
     THEN /\ wtodos' = [wtodos EXCEPT ![w] = Relabel(Scanned[scn][wjob[w].open].todos, wjob[w].rel)]
          /\ wpc' = [wpc EXCEPT ![w] = "lock"]
     ELSE /\ wtodos' = [wtodos EXCEPT ![w] = <<>>]
          /\ wpc' = [wpc EXCEPT ![w] = "recv"]
  /\ UNCHANGED <<scn, workers, pcMain, skip, repoRoot, gi, pending, walkErr, jobs,
                 closed, wg, mu, todos, wjob, ret, visited, sent, rcvd, call, result>>

\* A variant of WorkerLock that does not wait for the mutex to be free.
WorkerLockFree(w) ==
  /\ wpc[w] = "lock"
  /\ mu' = w
  /\ wpc' = [wpc EXCEPT ![w] = "append"]
  /\ UNCHANGED <<scn, workers, pcMain, skip, repoRoot, gi, pending, walkErr, jobs,
                 closed, wg, todos, wjob, wtodos, ret, visited, sent, rcvd, call,
                 result>>

\* Line 69: mu.Lock()
WorkerLock(w) ==
  /\ wpc[w] = "lock"
  /\ mu = 0
  /\ mu' = w
  /\ wpc' = [wpc EXCEPT ![w] = "append"]
  /\ UNCHANGED <<scn, workers, pcMain, skip, repoRoot, gi, pending, walkErr, jobs,
                 closed, wg, todos, wjob, wtodos, ret, visited, sent, rcvd, call,
                 result>>

\* A variant of WorkerAppend that overwrites the shared slice, as an append
\* that works on a stale copy of it does.
WorkerAppendStale(w) ==
  /\ wpc[w] = "append"
  /\ todos' = wtodos[w]
  /\ wpc' = [wpc EXCEPT ![w] = "unlock"]
  /\ UNCHANGED <<scn, workers, pcMain, skip, repoRoot, gi, pending, walkErr, jobs,
                 closed, wg, mu, wjob, wtodos, ret, visited, sent, rcvd, call, result>>

\* A variant of WorkerAppend that merges one record per critical section:
\* it appends the first record left and gives the mutex up while records
\* remain.
WorkerAppendPerRecord(w) ==
  /\ wpc[w] = "append"
  /\ todos' = Append(todos, Head(wtodos[w]))
  /\ wtodos' = [wtodos EXCEPT ![w] = Tail(wtodos[w])]
  /\ wpc' = [wpc EXCEPT ![w] = IF Len(wtodos[w]) > 1 THEN "lock" ELSE "unlock"]
  /\ mu' = IF Len(wtodos[w]) > 1 THEN 0 ELSE mu
  /\ UNCHANGED <<scn, workers, pcMain, skip, repoRoot, gi, pending, walkErr, jobs,
                 closed, wg, wjob, ret, visited, sent, rcvd, call, result>>

\* Line 70: todos = append(todos, fileTodos...)
WorkerAppend(w) ==
  /\ wpc[w] = "append"
  /\ todos' = todos \o wtodos[w]
  /\ wpc' = [wpc EXCEPT ![w] = "unlock"]
  /\ UNCHANGED <<scn, workers, pcMain, skip, repoRoot, gi, pending, walkErr, jobs,
                 closed, wg, mu, wjob, wtodos, ret, visited, sent, rcvd, call, result>>

\* Line 71: mu.Unlock(), and back to the range loop.
WorkerUnlock(w) ==
  /\ wpc[w] = "unlock"
  /\ mu' = 0
  /\ wtodos' = [wtodos EXCEPT ![w] = <<>>]
  /\ wpc' = [wpc EXCEPT ![w] = "recv"]
  /\ UNCHANGED <<scn, workers, pcMain, skip, repoRoot, gi, pending, walkErr, jobs,
                 closed, wg, todos, wjob, ret, visited, sent, rcvd, call, result>>

Worker(w) ==
  \/ WorkerRecv(w)
  \/ WorkerExit(w)
  \/ WorkerScan(w)
  \/ WorkerLock(w)
  \/ WorkerAppend(w)
  \/ WorkerUnlock(w)

Main == Setup \/ WalkStep \/ CloseJobs \/ WaitReturn

Next == Main \/ \E w \in 1..MaxWorkers : Worker(w)

Spec == Init /\ [][Next]_vars

\* The scan of the wide tree, on a machine with one CPU (two workers).
WideInit == InitWith({WideScenario}, {1})

WideSpec == WideInit /\ [][Next]_vars

\* The goroutines are scheduled fairly: the main goroutine and every worker
\* that can take a step eventually takes one.
Fairness == WF_vars(Main) /\ \A w \in 1..MaxWorkers : WF_vars(Worker(w))

FairInit == Init \/ WideInit

FairSpec == FairInit /\ [][Next]_vars /\ Fairness

(***************************************************************************)
(* Direct calls of gitIgnore.match, on rule files and candidate paths      *)
(* drawn from small sets.                                                  *)
(***************************************************************************)

\* Largest number of lines of a rule file of the direct calls.
MaxRules == 2

\* The lines the rule files are made of.
RuleLines ==
  {"*.tmp", "!keep.tmp", "vendor/", "!vendor", "/build", "docs/gen", "!src/*", "*.gen.go",
   "[ab]", "!build/", "/*.go", "/sr?/*"}

\* The rule files: every sequence of at most MaxRules lines.
RuleFiles == UNION {[1..n -> RuleLines] : n \in 0..MaxRules}

\* The candidate paths, relative to the repo root.
MatchPaths ==
  {"keep.tmp", "drop.tmp", "src/keep.tmp", "vendor", "src/vendor", "build", "src/build",
   "docs/gen", "a/docs/gen", "main.go", "x.gen.go", "a/b/x.gen.go", "a.gen.go/main.go",
   "src/[ab]", "src/a", "src/main.go", "xdocs/gen", "src/a/main.go"}

\* The receivers of match: nil, and what loadGitIgnore builds from each rule
\* file.
Receivers ==
  {NilGitIgnore} \cup {[nil |-> FALSE, root |-> "/r", rules |-> parseRules[f]] : f \in RuleFiles}

MatchCalls ==
  {[fn |-> "match", g |-> g, rel |-> rel, isDir |-> d] :
     g \in Receivers, rel \in MatchPaths, d \in BOOLEAN}

MatchInit ==
  /\ ScanInit({1}, {1})
  /\ call \in MatchCalls
  /\ result = NoResult

\* g.match(rel, isDir) returns.
ApplyMatch ==
  /\ call.fn = "match"
  /\ ~result.returned
  /\ result' = [returned |-> TRUE, value |-> match(call.g, call.rel, call.isDir)]
  /\ UNCHANGED <<scn, workers, pcMain, skip, repoRoot, gi, pending, walkErr, jobs, closed,
                 wg, mu, todos, wpc, wjob, wtodos, ret, visited, sent, rcvd, call>>

MatchNext == ApplyMatch

MatchSpec == MatchInit /\ [][MatchNext]_vars

(***************************************************************************)
(* Direct calls of findRepoRoot, from working directories and on starting  *)
(* directories of a file system that holds a repository and a tree outside *)
(* any repository.                                                         *)
(***************************************************************************)

ResolverFS == RepoFS @@ PlainFS

\* Whether the absolute path p is a directory of ResolverFS.
IsResolverDir(p) == p = "/" \/ (p \in DOMAIN ResolverFS /\ ResolverFS[p].kind = "dir")

\* The working directories of the calls.
ResolverCwds == {"/"} \cup {p \in DOMAIN ResolverFS : ResolverFS[p].kind = "dir" /\ Base[p] # ".git"}

\* The starting directories as written: absolute, and relative to the
\* working directory.
StartsWritten ==
  ResolverCwds \cup {".", "..", "src", "lib", "b", "vendor", "vendor/lib", "src/gen", "../p", "../lib"}

\* The calls findRepoRoot(start) whose start names a directory.
RootCalls ==
  {c \in [fn : {"findRepoRoot"}, cwd : ResolverCwds, start : StartsWritten] :
     IsResolverDir(AbsPath(c.cwd, c.start))}

\* findRepoRoot(start) returns.
ApplyFindRepoRoot ==
  /\ call.fn = "findRepoRoot"
  /\ ~result.returned
  /\ result' = [returned |-> TRUE, value |-> findRepoRoot(ResolverFS, call.cwd, call.start)]
  /\ UNCHANGED <<scn, workers, pcMain, skip, repoRoot, gi, pending, walkErr, jobs, closed,
                 wg, mu, todos, wpc, wjob, wtodos, ret, visited, sent, rcvd, call>>

\* The lines the matcher is called on: a keyword or a near miss, in some
\* letter case, with something before it, something right after it, and a
\* rest.
MatcherLines ==
  {h \o w \o p \o t :
     h \in {"", "// ", "x", "#", "_", "9 "},
     w \in {"TODO", "todo", "FixMe", "bug", "Note", "TOD", "DEBUG", "notes"},
     p \in {"", ":", " :", "::", "s", "_", "-", " "},
     t \in {"", " do it ", "x", " BUG: later", "\t"}}

LineCalls == [fn : {"matcher"}, line : MatcherLines, lineNum : {1}, path : {"f.go"}]

\* The body of the line loop of scanFileWithReader for one line: the
\* records it appends.
ApplyMatcher ==
  /\ call.fn = "matcher"
  /\ ~result.returned
  /\ result' = [returned |-> TRUE,
                value    |-> lineTodo(FindStringSubmatch(call.line), call.lineNum, call.path)]
  /\ UNCHANGED <<scn, workers, pcMain, skip, repoRoot, gi, pending, walkErr, jobs, closed,
                 wg, mu, todos, wpc, wjob, wtodos, ret, visited, sent, rcvd, call>>

\* The patterns and names matchPattern is called on: globs path.Match
\* accepts, globs it rejects, and names that do and do not equal them.
GlobPatterns ==
  {"[ab]", "*.go", "a\\*", "[a-c]x", "?", "[^a]", "a\\[", "x",
   "[", "a[", "[a", "[]", "[]a]", "a\\", "[a-]", "*[", "x[abc", "[^", "[-a]", "a*b["}

GlobNames == GlobPatterns \cup {"", "a", "b", "ax", "a*", "main.go", "]", "ab"}

PatternCalls == [fn : {"matchPattern"}, pattern : GlobPatterns, name : GlobNames]

\* matchPattern(pattern, name) returns.
ApplyMatchPattern ==
  /\ call.fn = "matchPattern"
  /\ ~result.returned
  /\ result' = [returned |-> TRUE, value |-> matchPattern(call.pattern, call.name)]
  /\ UNCHANGED <<scn, workers, pcMain, skip, repoRoot, gi, pending, walkErr, jobs, closed,
                 wg, mu, todos, wpc, wjob, wtodos, ret, visited, sent, rcvd, call>>

\* The lines of a rule file the loop body of loadGitIgnore is run on: a
\* pattern with markers and white space before it and slashes around it.
RuleTexts ==
  {l \o f \o b \o k :
     l \in {"", " ", "!", "! ", "!!", "#", "/!", " !"},
     f \in {"", "/", "//"},
     b \in {"", "a", "a/b", "*.go", "a b"},
     k \in {"", "/", "//", "/ ", " "}}

RuleLineCalls == [fn : {"parseRuleLine"}, text : RuleTexts]

\* One turn of the scan loop of loadGitIgnore: the rules the line adds.
ApplyParseRuleLine ==
  /\ call.fn = "parseRuleLine"
  /\ ~result.returned
  /\ result' = [returned |-> TRUE, value |-> parseRuleLine(call.text)]
  /\ UNCHANGED <<scn, workers, pcMain, skip, repoRoot, gi, pending, walkErr, jobs, closed,
                 wg, mu, todos, wpc, wjob, wtodos, ret, visited, sent, rcvd, call>>

\* The rule files loadGitIgnore is called on: up to MaxFileLines lines,
\* blank, comment, or a pattern, each closed by a newline.
MaxFileLines == 3

FileLines == {"", " ", "# *.tmp", "*.tmp", "!keep.tmp", " vendor/ ", "!"}

GitIgnoreFiles == UNION {[1..n -> FileLines] : n \in 0..MaxFileLines}

GitIgnoreText[lines \in Seq(STRING)] ==
  IF lines = <<>> THEN "" ELSE Head(lines) \o "\n" \o GitIgnoreText[Tail(lines)]

\* The repository whose rule file holds lines.
RuleFileFS(lines) ==
  ("/g" :> DirNode) @@ ("/g/.gitignore" :> FileNode(GitIgnoreText[lines]))

\* The candidates the loaded rules are then asked about.
FileCandidates ==
  {[rel |-> "keep.tmp", isDir |-> FALSE], [rel |-> "x.tmp", isDir |-> FALSE],
   [rel |-> "vendor", isDir |-> TRUE]}

RuleFileCalls ==
  {[fn |-> "loadGitIgnore", lines |-> l, rel |-> c.rel, isDir |-> c.isDir] :
     l \in GitIgnoreFiles, c \in FileCandidates}

\* loadGitIgnore("/g") returns, and match is asked about one candidate.
ApplyLoadGitIgnore ==
  /\ call.fn = "loadGitIgnore"
  /\ ~result.returned
  /\ result' = [returned |-> TRUE,
                value    |-> LET g == loadGitIgnore(RuleFileFS(call.lines), "/", "/g")
                             IN [gi |-> g, hit |-> match(g, call.rel, call.isDir)]]
  /\ UNCHANGED <<scn, workers, pcMain, skip, repoRoot, gi, pending, walkErr, jobs, closed,
                 wg, mu, todos, wpc, wjob, wtodos, ret, visited, sent, rcvd, call>>

CallInit ==
  /\ ScanInit({1}, {1})
  /\ call \in RootCalls \cup LineCalls \cup PatternCalls \cup RuleLineCalls \cup RuleFileCalls
  /\ result = NoResult

CallNext ==
  \/ ApplyFindRepoRoot
  \/ ApplyMatcher
  \/ ApplyMatchPattern
  \/ ApplyParseRuleLine
  \/ ApplyLoadGitIgnore

CallSpec == CallInit /\ [][CallNext]_vars

(***************************************************************************)
(* Properties.                                                             *)
(***************************************************************************)

\* The elements of a sequence.
Range(q) == {q[i] : i \in 1..Len(q)}

\* The absolute paths of the files at or below the root of a scan.
FilesUnder(in) ==
  {p \in DOMAIN in.fs :
     /\ in.fs[p].kind = "file"
     /\ p = AbsPath(in.cwd, in.root) \/ HasPrefix(p, AbsPath(in.cwd, in.root) \o "/")}

\* The numbers of the lines of a text that hold an annotation.
HitLines(lines) == {i \in 1..Len(lines) : ~FindStringSubmatch(lines[i]).nil}

\* The matching lines of the files of a scan, each as the pair of the file's
\* path relative to the root and the line number.
MatchingLines(in) ==
  UNION {{<<Rel[AbsPath(in.cwd, in.root), p], i>> : i \in HitLines(ScanLines[in.fs[p].data])} :
         p \in FilesUnder(in)}

MatchingLinesOf == [s \in DOMAIN Scenarios |-> MatchingLines(Scenarios[s])]

FileCountOf == [s \in DOMAIN Scenarios |-> Cardinality(FilesUnder(Scenarios[s]))]

\* Whether every entry at or below the root of a scan opens and reads.
ReadsCleanly(in) ==
  \A p \in DOMAIN in.fs :
     (p = AbsPath(in.cwd, in.root) \/ HasPrefix(p, AbsPath(in.cwd, in.root) \o "/"))
       => ~in.fs[p].deny /\ ~in.fs[p].ioErr

ReadsCleanlyOf == [s \in DOMAIN Scenarios |-> ReadsCleanly(Scenarios[s])]

\* The scan has returned, every file under the root was sent to the workers,
\* and every file opens and reads.
FullCleanScan == ret.returned /\ Len(sent) = FileCountOf[scn] /\ ReadsCleanlyOf[scn]

\* The (File, Line) pairs of a sequence of records.
Places(q) == {<<q[i].File, q[i].Line>> : i \in 1..Len(q)}

\* C1: when no file is excluded and every file opens and reads, the scan
\* returns exactly one record per matching line of the files under the root:
\* as many records as matching lines, and their (File, Line) pairs are the
\* matching lines, so none is lost and none is duplicated.
C1_OneRecordPerMatchingLine ==
  FullCleanScan =>
    /\ Len(ret.todos) = Cardinality(MatchingLinesOf[scn])
    /\ Places(ret.todos) = MatchingLinesOf[scn]

\* A full clean scan by three workers that returned records of three files.
C1_Witness ==
  /\ FullCleanScan
  /\ workers > 2
  /\ Len(ret.todos) >= 5
  /\ Cardinality({ret.todos[i].File : i \in 1..Len(ret.todos)}) >= 3

\* The records a worker finds for a job and merges: those of a file that
\* scanned without error, under the job's display path.
FoundFor(job) ==
  IF Keeps(Scanned[scn][job.open])
  THEN Range(Relabel(Scanned[scn][job.open].todos, job.rel))
  ELSE {}

\* C2: once ScanDirWithReader has returned, every worker has exited, every
\* job sent was received and none is left in the channel, the returned
\* sequence holds every record a worker found for a job, and the shared
\* slice still equals what was returned (nothing is appended after the
\* return).
C2_ReturnsAfterWorkersDrain ==
  ret.returned =>
    /\ \A w \in 1..workers : wpc[w] = "exited"
    /\ jobs = <<>>
    /\ rcvd = sent
    /\ \A k \in 1..Len(sent) : FoundFor(sent[k]) \subseteq Range(ret.todos)
    /\ todos = ret.todos

\* A scan of the repository tree has returned records of more than one job.
C2_Witness ==
  /\ ret.returned
  /\ Len(sent) > 1
  /\ Cardinality({k \in 1..Len(sent) : FoundFor(sent[k]) # {}}) > 1
  /\ Len(ret.todos) > 2

\* C3: under fair scheduling of the main goroutine and the workers, every
\* call of ScanDirWithReader eventually returns, whether the walk finds no
\* file, fewer files than the channel holds, or more, and for every pool
\* size of the model; in particular the walk and the workers never block
\* one another for ever.
C3_EventuallyReturns == <>ret.returned

\* The scan of the wide tree has returned after sending more jobs than the
\* channel holds.
C3_Witness == ret.returned /\ scn = WideScenario /\ Len(sent) > QueueCap

\* The walk is about to send a job.
SendPending ==
  pcMain = "walk" /\ pending # <<>> /\ Walked[scn][Head(pending)].send # <<>>

\* The workers that hold a job.
Busy == {w \in 1..workers : wpc[w] \in {"scan", "lock", "append", "unlock"}}

\* C4: the channel never holds more than QueueCap jobs; while it is full the
\* walk cannot take the step that sends; the jobs received are, in order,
\* the jobs sent that are no longer in the channel, so each job sent is
\* received once and none is dropped; and no two workers hold the same job.
C4_QueueBoundedJobsOnce ==
  /\ Len(jobs) <= QueueCap
  /\ (SendPending /\ Len(jobs) = QueueCap) => ~ENABLED WalkStep
  /\ sent = rcvd \o jobs
  /\ Cardinality(Range(sent)) = Len(sent)
  /\ \A v, w \in Busy : wjob[v] = wjob[w] => v = w
  /\ \A w \in Busy : wjob[w] \in Range(rcvd)

\* The channel is full and the walk is blocked on its next send.
C4_Witness ==
  /\ Len(jobs) = QueueCap
  /\ SendPending
  /\ ~ENABLED WalkStep

\* Whether the walk of a scan fails at its root: the root does not exist, or
\* it is a directory that cannot be listed.
RootFails(in) == KindOf(in, in.root) = "none" \/ Unreadable(in, in.root)

RootFailsOf == [s \in DOMAIN Scenarios |-> RootFails(Scenarios[s])]

\* C5: a scan whose root does not exist or cannot be read returns a non-nil
\* error.
C5_RootFailureReported == (ret.returned /\ RootFailsOf[scn]) => ret.err # "nil"

\* The file a job stands for, and whether opening or reading it fails.
FileOf(in, job) == AbsPath(in.cwd, Join(in.root, job.rel))

Fails(in, job) == in.fs[FileOf(in, job)].deny \/ in.fs[FileOf(in, job)].ioErr

\* The jobs the callback would send for the entries of each tree (whether or
\* not the walk reaches them), those among them whose file fails, and the
\* matching lines of the files of the other jobs, as (File, Line) pairs.
JobsOf(s) == UNION {Range(Walked[s][p].send) : p \in DOMAIN Walked[s]}

FailingOf == [s \in DOMAIN Scenarios |-> {j \in JobsOf(s) : Fails(Scenarios[s], j)}]

PlacesOf(in, job) ==
  {<<job.rel, i>> : i \in HitLines(ScanLines[in.fs[FileOf(in, job)].data])}

SoundPlacesOf ==
  [s \in DOMAIN Scenarios |->
     [j \in JobsOf(s) \ FailingOf[s] |-> PlacesOf(Scenarios[s], j)]]

\* A worker leaves the scan of a file that fails by going back to the range
\* loop, with nothing to merge and the shared slice as it was.
GoesOnAfterFailure ==
  \A w \in 1..workers :
     (wpc[w] = "scan" /\ wpc'[w] # "scan" /\ wjob[w] \in FailingOf[scn])
       => (wpc'[w] = "recv" /\ wtodos'[w] = <<>> /\ todos' = todos)

\* What a scan has returned when files failed: no record of a failing file,
\* the record of every matching line of every other file sent, and no error.
FailuresContained ==
  ret.returned =>
    /\ \A j \in FailingOf[scn] : \A i \in 1..Len(ret.todos) : ret.todos[i].File # j.rel
    /\ \A j \in Range(sent) \ FailingOf[scn] : SoundPlacesOf[scn][j] \subseteq Places(ret.todos)
    /\ (Range(sent) \cap FailingOf[scn] # {}) => ret.err = "nil"

\* C6: a file whose open fails, or whose read fails part-way, contributes no
\* record to the result, the lines matched before the failure included; the
\* worker that hit the failure goes back to receive the next job; the
\* records of every other file are returned; and the scan returns no error.
C6_FailingFileContributesNothing == []FailuresContained /\ [][GoesOnAfterFailure]_vars

\* A scan has returned after one file failed to open and another failed
\* part-way after a matching line, with the records of the other files.
C6_Witness ==
  /\ ret.returned
  /\ \E j \in Range(sent) \cap FailingOf[scn] : Input.fs[FileOf(Input, j)].deny
  /\ \E j \in Range(sent) \cap FailingOf[scn] :
        /\ Input.fs[FileOf(Input, j)].ioErr
        /\ Scanned[scn][j.open].todos # <<>>
  /\ Len(ret.todos) >= 2

\* The names on the way from the root of a scan to the entry the walk passes
\* to the callback as path: the name of the root, then the elements of the
\* path relative to the root.
NamesTo(in, path) ==
  <<Base[in.root]>> \o (IF path = in.root THEN <<>> ELSE SplitSlash[Rel[in.root, path]])

\* Whether the entry at path lies below a directory, at or below the root of
\* the scan, whose name is one of names.
BelowNamed(in, path, names) ==
  \E k \in 1..(Len(NamesTo(in, path)) - 1) : NamesTo(in, path)[k] \in names

\* The entries of a scan below a directory with one of the names: their
\* paths, and their paths relative to the root (the File of their records
\* and the rel of their jobs).
PathsBelow(s, names) == {p \in DOMAIN Walked[s] : BelowNamed(Scenarios[s], p, names)}

RelsBelow(s, names) == {Rel[Scenarios[s].root, p] : p \in PathsBelow(s, names)}

\* No entry below one of the directories was passed to the callback, sent as
\* a job, held by a worker or recorded.
Untouched(paths, rels) ==
  /\ visited \cap paths = {}
  /\ \A k \in 1..Len(sent) : sent[k].rel \notin rels
  /\ \A i \in 1..Len(todos) : todos[i].File \notin rels
  /\ \A i \in 1..Len(ret.todos) : ret.todos[i].File \notin rels

BelowDotGit ==
  [s \in DOMAIN Scenarios |->
     [paths |-> PathsBelow(s, {".git"}), rels |-> RelsBelow(s, {".git"})]]

\* C7: no entry below a directory named .git that the walk meets, at any
\* depth, is passed to the callback, sent as a job or recorded, whether the
\* scan has no rule file or one whose rules would include the directory.
C7_DotGitNeverEntered == Untouched(BelowDotGit[scn].paths, BelowDotGit[scn].rels)

\* A scan under a rule file with the negative rule !.git has returned after
\* the walk met two directories named .git, one of them below the first
\* level, both with files in them.
C7_Witness ==
  /\ ret.returned
  /\ \E i \in 1..Len(gi.rules) : gi.rules[i].negative /\ gi.rules[i].pattern = ".git"
  /\ \E p, q \in visited :
        /\ Base[p] = ".git" /\ Base[q] = ".git" /\ Len(p) < Len(q)
        /\ \E x, y \in BelowDotGit[scn].paths : Dir[x] = p /\ Dir[y] = q
  /\ Len(ret.todos) > 0

\* The names of the explicit ignore list, trimmed of surrounding white space.
TrimmedNames(in) == {TrimSpace(in.ignoreDirs[i]) : i \in 1..Len(in.ignoreDirs)}

BelowIgnored ==
  [s \in DOMAIN Scenarios |->
     [paths |-> PathsBelow(s, TrimmedNames(Scenarios[s])),
      rels  |-> RelsBelow(s, TrimmedNames(Scenarios[s]))]]

\* C8: no entry below a directory whose name is a trimmed entry of the
\* ignore list is passed to the callback, sent as a job or recorded, with
\* or without a rule file and whatever its rules say.
C8_IgnoredNamesNeverEntered == Untouched(BelowIgnored[scn].paths, BelowIgnored[scn].rels)

\* A scan under a rule file with a negative rule for a name of the ignore
\* list, given with white space around it, has returned after the walk met
\* a directory of that name that has a file in it.
C8_Witness ==
  /\ ret.returned
  /\ \E i \in 1..Len(gi.rules) : \E p \in visited :
        /\ gi.rules[i].negative
        /\ gi.rules[i].pattern = Base[p]
        /\ Base[p] \in TrimmedNames(Input)
        /\ Base[p] \notin Range(Input.ignoreDirs)
        /\ \E x \in BelowIgnored[scn].paths : Dir[x] = p
  /\ Len(ret.todos) > 0

\* The rule the line "vendor/" stands for.
VendorRule ==
  [pattern |-> "vendor", negative |-> FALSE, anchored |-> FALSE, dirOnly |-> TRUE,
   hasSlash |-> FALSE]

\* The rules hold the rule of the line "vendor/" and no negative rule that
\* can match a directory named vendor.
VendorExcluded(g) ==
  /\ ~g.nil
  /\ VendorRule \in Range(g.rules)
  /\ \A i \in 1..Len(g.rules) :
        g.rules[i].negative =>
          /\ ~g.rules[i].anchored
          /\ ~g.rules[i].hasSlash
          /\ ~matchPattern(g.rules[i].pattern, "vendor")

VendorExcludedOf == [s \in DOMAIN Scenarios |-> VendorExcluded(LocalsOf[s].gi)]

\* The names of the directories between the repo root of a scan and the file
\* of a job.
DirsInRepo(in, loc, job) ==
  SubSeq(SplitSlash[Rel[AbsPath(in.cwd, loc.repoRoot), FileOf(in, job)]], 1,
         Len(SplitSlash[Rel[AbsPath(in.cwd, loc.repoRoot), FileOf(in, job)]]) - 1)

\* The jobs of a scan for files that lie under a directory named vendor below
\* the repo root.
UnderVendorOf ==
  [s \in DOMAIN Scenarios |->
     {j \in JobsOf(s) : "vendor" \in Range(DirsInRepo(Scenarios[s], LocalsOf[s], j))}]

\* C9 as stated: with the rule line "vendor/" in the exclusion file at the
\* repo root, a scan enqueues no job for, and returns no record from, any
\* file that lies under a directory named vendor below the repo root.
C9_NothingUnderVendorInRepo ==
  VendorExcludedOf[scn] =>
    /\ \A k \in 1..Len(sent) : sent[k] \notin UnderVendorOf[scn]
    /\ \A i \in 1..Len(ret.todos) :
          \A j \in UnderVendorOf[scn] : ret.todos[i].File # j.rel

BelowVendor ==
  [s \in DOMAIN Scenarios |->
     [paths |-> PathsBelow(s, {"vendor"}), rels |-> RelsBelow(s, {"vendor"})]]

\* C9, amended: with the rule line "vendor/" in the exclusion file at the
\* repo root, and no negative rule that can match a directory named vendor,
\* no entry below a directory named vendor that the walk meets (a directory
\* at or below the root of the scan, at any depth) is passed to the
\* callback, sent as a job or recorded.
C9_VendorBelowRootNeverEntered ==
  VendorExcludedOf[scn] => Untouched(BelowVendor[scn].paths, BelowVendor[scn].rels)

\* A scan under the rule vendor/ has returned after the walk met a directory
\* named vendor at the first level and another below it, both with files
\* below them.
C9_Witness ==
  /\ ret.returned
  /\ VendorExcludedOf[scn]
  /\ \E p, q \in visited :
        /\ Base[p] = "vendor" /\ Base[q] = "vendor" /\ Len(p) < Len(q)
        /\ \E x, y \in BelowVendor[scn].paths : HasPrefix(x, p \o "/") /\ HasPrefix(y, q \o "/")
  /\ Len(ret.todos) > 0

\* The receiver g with nothing but its i-th rule, made positive.
RuleAlone(g, i) == [g EXCEPT !.rules = <<[g.rules[i] EXCEPT !.negative = FALSE]>>]

\* The rules of the receiver of the call that apply to and match its path:
\* those that, alone and positive, exclude it.
Hits == {i \in 1..Len(call.g.rules) : match(RuleAlone(call.g, i), call.rel, call.isDir)}

\* The last of them, in the order of the rule file.
LastHit == CHOOSE i \in Hits : \A j \in Hits : j <= i

\* C10: the verdict of match is decided by the last rule, in file order, that
\* applies to and matches the path: excluded when that rule is positive, not
\* excluded when it is negative or when no rule matches.  With the rules
\* *.tmp then !keep.tmp the file keep.tmp is not excluded and the file
\* drop.tmp is.
C10_LastMatchingRuleDecides ==
  (call.fn = "match" /\ result.returned) =>
    /\ result.value = (IF Hits = {} THEN FALSE ELSE ~call.g.rules[LastHit].negative)
    /\ (call.g.rules = parseRules[<<"*.tmp", "!keep.tmp">>] /\ ~call.isDir) =>
          /\ call.rel = "keep.tmp" => result.value = FALSE
          /\ call.rel = "drop.tmp" => result.value = TRUE

\* match has returned "not excluded" for keep.tmp under the rules *.tmp then
\* !keep.tmp, both of which match it.
C10_Witness ==
  /\ call.fn = "match"
  /\ result.returned
  /\ ~call.g.nil
  /\ call.g.rules = parseRules[<<"*.tmp", "!keep.tmp">>]
  /\ call.rel = "keep.tmp"
  /\ ~call.isDir
  /\ Hits = {1, 2}
  /\ result.value = FALSE

\* Whether every rule of a receiver is unanchored and has no separator.
BaseNameRulesOnly(g) ==
  \A i \in 1..Len(g.rules) : ~g.rules[i].anchored /\ ~g.rules[i].hasSlash

\* C11: an unanchored rule without a separator is tried on the base name of
\* the candidate only.  Under rules of that kind the verdict for a path is
\* the verdict for its base name; a single positive rule of that kind
\* excludes a candidate exactly when its pattern matches the base name, or
\* equals the base name of a directory; and the rule *.gen.go excludes
\* exactly the files whose base name ends in .gen.go, at any depth.
C11_BaseNameOnly ==
  (call.fn = "match" /\ result.returned /\ ~call.g.nil /\ BaseNameRulesOnly(call.g)) =>
    /\ result.value = match(call.g, Base[call.rel], call.isDir)
    /\ (Len(call.g.rules) = 1 /\ ~call.g.rules[1].negative /\ ~call.g.rules[1].dirOnly) =>
          result.value = (\/ matchPattern(call.g.rules[1].pattern, Base[call.rel])
                          \/ call.isDir /\ call.g.rules[1].pattern = Base[call.rel])
    /\ (call.g.rules = parseRules[<<"*.gen.go">>] /\ ~call.isDir) =>
          result.value = (HasSuffix(Base[call.rel], ".gen.go") /\ Len(Base[call.rel]) >= 7)

\* match has returned "not excluded" for a file whose base name does not
\* match *.gen.go while the directory above it does.
C11_Witness ==
  /\ call.fn = "match"
  /\ result.returned
  /\ ~call.g.nil
  /\ call.g.rules = parseRules[<<"*.gen.go">>]
  /\ call.rel = "a.gen.go/main.go"
  /\ ~call.isDir
  /\ matchPattern("*.gen.go", "a.gen.go")
  /\ result.value = FALSE

\* The absolute path of the root of a scan.
AbsRoot(in) == AbsPath(in.cwd, in.root)

\* The records the lines of the file at the absolute path p give, with File
\* the path of p relative to the root of the scan.
RecordsOfFile(in, p) ==
  {[File |-> Rel[AbsRoot(in), p],
    Line |-> i,
    Tag  |-> ToUpper[FindStringSubmatch(ScanLines[in.fs[p].data][i]).m1],
    Text |-> TrimSpace(FindStringSubmatch(ScanLines[in.fs[p].data][i]).m2)] :
     i \in HitLines(ScanLines[in.fs[p].data])}

RecordsOf == [s \in DOMAIN Scenarios |->
                UNION {RecordsOfFile(Scenarios[s], p) : p \in FilesUnder(Scenarios[s])}]

\* The files of a scan that produce record rec: those whose line rec.Line
\* gives the tag and the text of rec.
ProducersOf ==
  [s \in DOMAIN Scenarios |->
     [rec \in RecordsOf[s] |->
        {p \in FilesUnder(Scenarios[s]) :
           \E x \in RecordsOfFile(Scenarios[s], p) :
              x.Line = rec.Line /\ x.Tag = rec.Tag /\ x.Text = rec.Text}]]

\* The absolute path of the repo root of each scan.
AbsRepoRootOf == [s \in DOMAIN Scenarios |-> AbsPath(Scenarios[s].cwd, LocalsOf[s].repoRoot)]

\* A record whose File is what the job of its file asked the reader to open;
\* a record whose File is the path of its file relative to a repo root that
\* is not the scan root.
NamedByOpenPath(rec) == \E j \in Range(sent) : j.rel = rec.File /\ j.open = rec.File

NamedFromRepoRoot(rec) ==
  /\ AbsRepoRootOf[scn] # AbsRoot(Input)
  /\ rec \in RecordsOf[scn]
  /\ \E p \in ProducersOf[scn][rec] : rec.File = Rel[AbsRepoRootOf[scn], p]

\* C12 as claimed: no returned record has as File the identifier its file
\* was opened with, nor its path relative to the repo root, whichever reader
\* is used.
C12_FileNeverOpenIdentifier ==
  ret.returned =>
    \A i \in 1..Len(ret.todos) :
       /\ ret.todos[i] \in RecordsOf[scn]
       /\ ~NamedByOpenPath(ret.todos[i])
       /\ ~NamedFromRepoRoot(ret.todos[i])

\* C12: every record of the shared slice and of the returned sequence is a
\* record of a file under the scan root, with File the path of that file
\* relative to the scan root; it is the path relative to the repo root only
\* when the repo root is the scan root, and the identifier the file was
\* opened with only when that identifier is the relative path itself
\* (the injected reader, or the OS reader with the root ".").
C12_FileRelativeToScanRoot ==
  /\ \A i \in 1..Len(todos) : todos[i] \in RecordsOf[scn]
  /\ ret.returned =>
       \A i \in 1..Len(ret.todos) :
          /\ ret.todos[i] \in RecordsOf[scn]
          /\ ~NamedFromRepoRoot(ret.todos[i])
          /\ NamedByOpenPath(ret.todos[i]) => (Input.reader # "os" \/ Input.root = ".")

\* A scan by the OS reader below the root of a repository, whose rules were
\* loaded, has returned a record.
C12_Witness ==
  /\ ret.returned
  /\ Input.reader = "os"
  /\ ~gi.nil
  /\ AbsRepoRootOf[scn] # AbsRoot(Input)
  /\ Len(ret.todos) > 0
  /\ ret.todos[1].File = "v.go"

\* The directories of ResolverFS at or above the absolute path p.
AncestorsOf(p) ==
  {a \in ResolverCwds : a = p \/ a = "/" \/ HasPrefix(p, a \o "/")}

\* Those of them that hold a directory .git, and the nearest (the longest).
MarkedAncestors(p) ==
  {a \in AncestorsOf(p) : (IF a = "/" THEN "/.git" ELSE a \o "/.git") \in DOMAIN ResolverFS}

NearestMarked(p) == CHOOSE a \in MarkedAncestors(p) : \A b \in MarkedAncestors(p) : Len(b) <= Len(a)

\* The absolute path of the starting directory of the call.
StartDir == AbsPath(call.cwd, call.start)

\* C13: whenever the starting directory or a directory above it holds a
\* directory .git, findRepoRoot returns the nearest such directory, whether
\* start is written as an absolute or as a relative path.
C13_NearestMarkedAncestor ==
  (call.fn = "findRepoRoot" /\ result.returned /\ MarkedAncestors(StartDir) # {}) =>
    AbsPath(call.cwd, result.value) = NearestMarked(StartDir)

\* C14: whenever neither the starting directory nor any directory above it
\* holds a directory .git, findRepoRoot returns start as it was given; and
\* every call returns.
C14_UnmarkedReturnsStart ==
  call.fn = "findRepoRoot" =>
    /\ ~result.returned => ENABLED ApplyFindRepoRoot
    /\ (result.returned /\ MarkedAncestors(StartDir) = {}) => result.value = call.start

\* Whether the root of a scan, or a directory above it, holds a directory
\* .git.
HasAnchor(in) ==
  \E g \in DOMAIN in.fs :
     /\ in.fs[g].kind = "dir"
     /\ Base[g] = ".git"
     /\ Dir[g] = "/" \/ Dir[g] = AbsRoot(in) \/ HasPrefix(AbsRoot(in), Dir[g] \o "/")

HasAnchorOf == [s \in DOMAIN Scenarios |-> HasAnchor(Scenarios[s])]

\* The files the walk of a scan sends when no rule excludes anything: those
\* it can reach that are not below a directory named .git or a directory
\* named in the ignore list, by their paths relative to the root.
SentWithoutRules(s) ==
  {Rel[Scenarios[s].root, p] :
     p \in {q \in DOMAIN Walked[s] :
              /\ Walked[s][q].kind = "file"
              /\ ~BelowNamed(Scenarios[s], q, {".git"} \cup TrimmedNames(Scenarios[s]))}}

SentWithoutRulesOf == [s \in DOMAIN Scenarios |-> SentWithoutRules(s)]

\* The paths, relative to the root, of the jobs sent so far.
SentRels == {sent[k].rel : k \in 1..Len(sent)}

\* C15: a scan whose root has no directory .git at or above it loads no
\* rules, and when it has returned every file the walk could reach outside
\* .git and the ignored names was sent, also when the root holds a rule
\* file.
C15_NoAnchorNoRules ==
  (~HasAnchorOf[scn] /\ ret.returned) =>
    /\ gi.nil
    /\ SentRels = SentWithoutRulesOf[scn]

\* Whether the rule file of a scan is missing or cannot be opened: no file
\* .gitignore in the directory findRepoRoot returned, or one that denies
\* access.
RuleFileMissing(in, root) ==
  \/ Join(root, ".gitignore") \notin DOMAIN in.fs
  \/ in.fs[Join(root, ".gitignore")].deny

RuleFileMissingOf ==
  [s \in DOMAIN Scenarios |-> RuleFileMissing(Scenarios[s], AbsRepoRootOf[s])]

\* C16: a scan whose repo root has no rule file, or one that cannot be
\* opened, has no rules once set up; nothing below a directory named .git
\* or named in the ignore list is touched; and when it has returned, it
\* returned no error and every other file the walk could reach was sent.
C16_MissingRuleFileIsNoError ==
  RuleFileMissingOf[scn] =>
    /\ pcMain # "setup" => gi.nil
    /\ Untouched(BelowDotGit[scn].paths, BelowDotGit[scn].rels)
    /\ Untouched(BelowIgnored[scn].paths, BelowIgnored[scn].rels)
    /\ ret.returned => (ret.err = "nil" /\ SentRels = SentWithoutRulesOf[scn])

\* A scan of a repository without a rule file has returned records after
\* the walk met a directory .git and a directory of the ignore list, while
\* the directory above the repository has a rule file.
C16_Witness ==
  /\ ret.returned
  /\ HasAnchorOf[scn]
  /\ Join(AbsRepoRootOf[scn], ".gitignore") \notin DOMAIN Input.fs
  /\ Join(Dir[AbsRepoRootOf[scn]], ".gitignore") \in DOMAIN Input.fs
  /\ \E p, q \in visited : Base[p] = ".git" /\ Base[q] \in TrimmedNames(Input)
  /\ BelowDotGit[scn].paths # {}
  /\ BelowIgnored[scn].paths # {}
  /\ Len(ret.todos) > 0

\* Whether the records of each file stand in a sequence of records as one
\* block, in increasing line order.
BlocksInLineOrder(q) ==
  \A i, j \in 1..Len(q) :
     (i < j /\ q[i].File = q[j].File) =>
       /\ q[i].Line < q[j].Line
       /\ \A k \in i..j : q[k].File = q[i].File

\* The position in sent of the job of a file.
SentAt(file) == CHOOSE k \in 1..Len(sent) : sent[k].rel = file

\* C17: in the shared slice at every moment, and in the returned sequence,
\* the records of any one file form one block in increasing line order,
\* under every interleaving of the workers.
C17_PerFileBlocksInLineOrder == BlocksInLineOrder(todos) /\ BlocksInLineOrder(ret.todos)

\* A scan has returned the blocks of three files, one of them of several
\* records, with a block ahead of the block of a file that was sent earlier.
C17_Witness ==
  /\ ret.returned
  /\ Cardinality({ret.todos[i].File : i \in 1..Len(ret.todos)}) >= 3
  /\ \E i, j \in 1..Len(ret.todos) : i < j /\ ret.todos[i].File = ret.todos[j].File
  /\ \E i, j \in 1..Len(ret.todos) :
        i < j /\ SentAt(ret.todos[j].File) < SentAt(ret.todos[i].File)

\* The words of a line: the maximal runs of letters, digits and underscores,
\* each by the position of its first character; the position of the last
\* character of the word that starts at i; and the word itself.
WordStarts(line) ==
  {i \in 1..Len(line) : IsWordCh(Ch(line, i)) /\ ~IsWordCh(Ch(line, i - 1))}

WordEnd(line, i) ==
  CHOOSE e \in i..Len(line) :
     /\ \A k \in i..e : IsWordCh(Ch(line, k))
     /\ ~IsWordCh(Ch(line, e + 1))

WordAt(line, i) == SubSeq(line, i, WordEnd(line, i))

\* The words of a line that are a keyword in some letter case, and the first.
KeywordWords(line) ==
  {i \in WordStarts(line) : ToUpper[WordAt(line, i)] \in {"TODO", "FIXME", "BUG", "NOTE"}}

FirstKeywordWord(line) == CHOOSE i \in KeywordWords(line) : \A j \in KeywordWords(line) : i <= j

\* What follows the first keyword of a line, less one colon right after it.
AfterKeyword(line) ==
  LET rest == Drop(line, WordEnd(line, FirstKeywordWord(line)))
  IN IF HasPrefix(rest, ":") THEN Drop(rest, 1) ELSE rest

\* C18: the matcher yields a record for a line exactly when one of its words
\* is a keyword in some letter case, and never more than one; the tag of the
\* record is the first such word in upper case and its text is what follows
\* that word and one optional colon, trimmed, empty when nothing follows.
C18_MatcherTagAndText ==
  (call.fn = "matcher" /\ result.returned) =>
    /\ Len(result.value) <= 1
    /\ (Len(result.value) = 1) = (KeywordWords(call.line) # {})
    /\ Len(result.value) = 1 =>
         /\ result.value[1].Tag = ToUpper[WordAt(call.line, FirstKeywordWord(call.line))]
         /\ result.value[1].Text = TrimSpace(AfterKeyword(call.line))
         /\ result.value[1].Line = call.lineNum

\* The matcher has yielded a record with an empty text for a line that ends
\* with a keyword in mixed case, without a colon.
C18_Witness ==
  /\ call.fn = "matcher"
  /\ result.returned
  /\ call.line = "// FixMe"
  /\ Len(result.value) = 1
  /\ result.value[1].Tag = "FIXME"
  /\ result.value[1].Text = ""

\* The malformed globs among the patterns: a character class that is not
\* closed, is empty, or has a range without an end or a bare ] or - as a
\* member, and a backslash with nothing after it.
MalformedGlobs ==
  {"[", "a[", "[a", "[]", "[]a]", "a\\", "[a-]", "*[", "x[abc", "[^", "[-a]", "a*b["}

\* C19: matchPattern returns for every pattern and name, and for a malformed
\* glob it returns whether pattern and name are the same string.
C19_MalformedGlobIsEquality ==
  call.fn = "matchPattern" =>
    /\ ~result.returned => ENABLED ApplyMatchPattern
    /\ (result.returned /\ call.pattern \in MalformedGlobs) =>
          result.value = (call.pattern = call.name)

\* matchPattern has returned true for a malformed glob and the name equal to
\* it.
C19_Witness ==
  /\ call.fn = "matchPattern"
  /\ result.returned
  /\ call.pattern = "x[abc"
  /\ call.name = "x[abc"
  /\ Match[call.pattern, call.name].err
  /\ result.value = TRUE

\* The step that closes the channel is taken by the main goroutine when
\* WalkDir has no entry left, with every job the walk sends already sent;
\* a closed channel stays closed.
ClosesAfterWalk ==
  /\ closed => closed'
  /\ (~closed /\ closed') =>
        /\ pcMain = "walk" /\ pcMain' = "wait"
        /\ pending = <<>>
        /\ visited' = visited /\ sent' = sent

\* Nothing is sent on a closed channel, and the walk visits nothing more.
NoSendAfterClose == closed => (sent' = sent /\ visited' = visited /\ Len(jobs') <= Len(jobs))

\* A worker leaves its loop only when the channel is closed and empty.
ExitsOnClosedAndEmpty ==
  \A w \in 1..MaxWorkers :
     (wpc[w] # "exited" /\ wpc'[w] = "exited") => (closed /\ jobs = <<>> /\ wpc[w] = "recv")

\* C20: the channel is closed by one step, taken after the walk has passed
\* its last entry, and is closed when the scan returns; no job is sent after
\* that step; and a worker exits only when the channel is closed and empty.
C20_ClosedOnceAfterWalk ==
  /\ [][ClosesAfterWalk /\ NoSendAfterClose /\ ExitsOnClosedAndEmpty]_vars
  /\ [](ret.returned => closed)
  /\ []((pcMain \in {"setup", "walk"}) => ~closed)

\* The channel is closed after three or more jobs were sent, one worker has
\* left its loop and another is still scanning.
C20_Witness ==
  /\ closed
  /\ Len(sent) >= 3
  /\ \E w, v \in 1..workers : wpc[w] = "exited" /\ wpc[v] = "scan"

\* The workers inside the critical section of lines 69-71.
InCritical == {w \in 1..MaxWorkers : wpc[w] \in {"append", "unlock"}}

\* At most one worker is inside the critical section, it holds the mutex,
\* and no worker outside it does.
MutexHeldByTheOneInside ==
  /\ Cardinality(InCritical) <= 1
  /\ \A w \in InCritical : mu = w
  /\ InCritical = {} => mu = 0

\* The shared slice changes only by the step of the worker that holds the
\* mutex, which appends the whole batch of its file.
AppendsWholeBatchUnderMutex ==
  todos' # todos =>
    \E w \in 1..MaxWorkers :
       /\ wpc[w] = "append" /\ mu = w /\ mu' = w
       /\ todos' = todos \o wtodos[w]
       /\ wtodos[w] # <<>>
       /\ \A i \in 1..Len(wtodos[w]) : wtodos[w][i].File = wjob[w].rel

\* A step of a running worker writes its own job and batch, the shared
\* slice, and the channel, the WaitGroup and the mutex it synchronises
\* through; it writes nothing of another worker and nothing else of the
\* scan.
WorkerWritesOwnAndShared ==
  \A w \in 1..MaxWorkers :
     (wpc[w] # "idle" /\ wpc'[w] # wpc[w]) =>
       /\ \A v \in (1..MaxWorkers) \ {w} :
             wpc'[v] = wpc[v] /\ wjob'[v] = wjob[v] /\ wtodos'[v] = wtodos[v]
       /\ UNCHANGED <<skip, repoRoot, gi, pending, walkErr, closed, ret, visited, sent>>

\* C21: at most one worker at a time is inside the critical section; the
\* batch of a file is appended to the shared slice in one step by the holder
\* of the mutex; the mutex is free whenever no worker is inside and when the
\* scan has returned; and besides the channel, the WaitGroup and the mutex,
\* the shared slice is the only state a worker writes that is not its own.
C21_OneWorkerInCriticalSection ==
  /\ []MutexHeldByTheOneInside
  /\ [][AppendsWholeBatchUnderMutex /\ WorkerWritesOwnAndShared]_vars
  /\ [](ret.returned => mu = 0)

\* One worker is about to append its batch under the mutex while two others
\* wait for the mutex with batches of their own.
C21_Witness ==
  /\ \E w \in 1..workers : wpc[w] = "append" /\ mu = w /\ Len(wtodos[w]) >= 2
  /\ Cardinality({v \in 1..workers : wpc[v] = "lock" /\ wtodos[v] # <<>>}) = 2

\* Whether the walk of a scan skips the directory at path when it meets it:
\* it is named .git, its name is a trimmed entry of the ignore list, or the
\* rules loaded exclude its path relative to the repo root as a directory.
SkipsDir(s, path) ==
  /\ Walked[s][path].kind = "dir"
  /\ \/ Base[path] = ".git"
     \/ Base[path] \in TrimmedNames(Scenarios[s])
     \/ /\ ~LocalsOf[s].gi.nil
        /\ match(LocalsOf[s].gi,
                 Rel[AbsRepoRootOf[s], AbsPath(Scenarios[s].cwd, path)], TRUE)

\* Whether a path of the walk lies below another.
IsBelow(path, dir) == path # dir /\ (dir = "." \/ dir = "/" \/ HasPrefix(path, dir \o "/"))

\* For every directory a scan skips, the entries below it: their paths and
\* their paths relative to the root.
BelowSkipped ==
  [s \in DOMAIN Scenarios |->
     [d \in {p \in DOMAIN Walked[s] : SkipsDir(s, p)} |->
        [paths |-> {q \in DOMAIN Walked[s] : IsBelow(q, d)},
         rels  |-> {Rel[Scenarios[s].root, q] : q \in {x \in DOMAIN Walked[s] : IsBelow(x, d)}}]]]

\* The files below a skipped directory that the rules, asked about the file
\* itself, do not exclude.
ReincludedBelow(s, d) ==
  {q \in BelowSkipped[s][d].paths :
     /\ Walked[s][q].kind = "file"
     /\ ~LocalsOf[s].gi.nil
     /\ ~match(LocalsOf[s].gi, Rel[AbsRepoRootOf[s], AbsPath(Scenarios[s].cwd, q)], FALSE)}

ReincludedBelowOf ==
  [s \in DOMAIN Scenarios |-> [d \in DOMAIN BelowSkipped[s] |-> ReincludedBelow(s, d)]]

\* C22: no entry below a directory the walk has met and skipped, for any of
\* the three reasons, is passed to the callback, sent as a job or recorded,
\* whether or not the rules would let the entry itself through.
C22_SkippedDirNotDescended ==
  \A d \in visited \cap DOMAIN BelowSkipped[scn] :
     Untouched(BelowSkipped[scn][d].paths, BelowSkipped[scn][d].rels)

\* A scan has returned after the walk skipped a directory .git, a directory
\* of the ignore list and a directory the rules exclude, the last with a
\* file below it that a later negative rule re-includes.
C22_Witness ==
  /\ ret.returned
  /\ \E d \in visited \cap DOMAIN BelowSkipped[scn] :
        Base[d] = ".git" /\ BelowSkipped[scn][d].paths # {}
  /\ \E d \in visited \cap DOMAIN BelowSkipped[scn] :
        Base[d] \in TrimmedNames(Input) /\ BelowSkipped[scn][d].paths # {}
  /\ \E d \in visited \cap DOMAIN BelowSkipped[scn] :
        /\ Base[d] = "build"
        /\ \E q \in ReincludedBelowOf[scn][d] : Base[q] = "keep.go"
  /\ gi.rules = parseRules[<<"build/", "!build/keep.go">>]
  /\ Len(ret.todos) > 0

\* A receiver without its directory-only rules.
WithoutDirOnly(g) == [g EXCEPT !.rules = SelectSeq(g.rules, LAMBDA r : ~r.dirOnly)]

\* C23: for a candidate that is not a directory, the verdict of match is the
\* verdict under the same rules with every directory-only rule removed.
C23_DirOnlyRulesSpareFiles ==
  (call.fn = "match" /\ result.returned /\ ~call.g.nil /\ ~call.isDir) =>
    result.value = match(WithoutDirOnly(call.g), call.rel, FALSE)

\* match has returned "excluded" for a file named build under the rules
\* /build then !build/, the second of which matches the name but is
\* directory-only.
C23_Witness ==
  /\ call.fn = "match"
  /\ result.returned
  /\ call.g.rules = parseRules[<<"/build", "!build/">>]
  /\ call.g.rules[2].dirOnly
  /\ call.rel = "build"
  /\ ~call.isDir
  /\ match(call.g, call.rel, TRUE) = FALSE
  /\ result.value = TRUE

\* The number of separators of a path or pattern.
Slashes(s) == Cardinality({i \in 1..Len(s) : Ch(s, i) = "/"})

\* Whether the receiver of the call has one rule, positive, which applies to
\* the candidate of the call.
OneRuleApplies ==
  /\ call.fn = "match" /\ result.returned /\ ~call.g.nil
  /\ Len(call.g.rules) = 1
  /\ ~call.g.rules[1].negative
  /\ call.g.rules[1].dirOnly => call.isDir

\* C24: a single anchored rule excludes a candidate exactly when its glob
\* matches the whole path relative to the repo root, and then pattern and
\* path have the same number of separators, since * and ? match none; /build
\* excludes build and not src/build, /*.go excludes main.go and not
\* src/main.go, and /sr?/* excludes src/a and not src/a/main.go.
C24_AnchoredMatchesFullPath ==
  (OneRuleApplies /\ call.g.rules[1].anchored) =>
    /\ result.value = matchPattern(call.g.rules[1].pattern, call.rel)
    /\ result.value => Slashes(call.g.rules[1].pattern) = Slashes(call.rel)
    /\ call.g.rules = parseRules[<<"/build">>] => (result.value = (call.rel = "build"))
    /\ call.g.rules = parseRules[<<"/*.go">>] => (result.value = (call.rel \in {"main.go", "x.gen.go"}))
    /\ call.g.rules = parseRules[<<"/sr?/*">>] =>
          (result.value = (call.rel \in {"src/keep.tmp", "src/vendor", "src/build", "src/[ab]", "src/a",
                                         "src/main.go"}))

\* match has returned "not excluded" for src/build under the anchored rule
\* /build, whose glob matches the base name of the candidate.
C24_Witness ==
  /\ OneRuleApplies
  /\ call.g.rules = parseRules[<<"/build">>]
  /\ call.g.rules[1].anchored
  /\ call.rel = "src/build"
  /\ matchPattern(call.g.rules[1].pattern, Base[call.rel])
  /\ result.value = FALSE

\* The suffixes of a path that begin at an element: the path itself and what
\* follows each of its separators.
ElementSuffixes(rel) ==
  {JoinSlash[SubSeq(SplitSlash[rel], k, Len(SplitSlash[rel]))] : k \in 1..Len(SplitSlash[rel])}

\* C25: a single unanchored rule with a separator excludes a candidate
\* exactly when its glob matches the whole path or a suffix of it that
\* begins at an element; docs/gen excludes docs/gen and a/docs/gen and not
\* xdocs/gen.
C25_SlashRuleMatchesElementSuffix ==
  (OneRuleApplies /\ ~call.g.rules[1].anchored /\ call.g.rules[1].hasSlash) =>
    /\ result.value = (\E x \in ElementSuffixes(call.rel) : matchPattern(call.g.rules[1].pattern, x))
    /\ call.g.rules = parseRules[<<"docs/gen">>] =>
          (result.value = (call.rel \in {"docs/gen", "a/docs/gen"}))

\* match has returned "not excluded" for xdocs/gen under the rule docs/gen,
\* which equals a suffix of the candidate that begins inside an element.
C25_Witness ==
  /\ OneRuleApplies
  /\ call.g.rules = parseRules[<<"docs/gen">>]
  /\ ~call.g.rules[1].anchored /\ call.g.rules[1].hasSlash
  /\ call.rel = "xdocs/gen"
  /\ HasSuffix(call.rel, call.g.rules[1].pattern)
  /\ result.value = FALSE

\* The line of the call without the white space around it; whether it opens
\* with a !; and what is left of it without that ! and the white space
\* after it.
TrimmedText == TrimSpace(call.text)

Banged == HasPrefix(TrimmedText, "!")

CoreText == IF Banged THEN TrimSpace(Drop(TrimmedText, 1)) ELSE TrimmedText

\* The line a rule stands for: its pattern between the slashes its flags
\* record.
RuleAsText(r) ==
  (IF r.anchored THEN "/" ELSE "") \o r.pattern \o (IF r.dirOnly THEN "/" ELSE "")

\* C26: a line yields no rule exactly when it is blank, a comment, or has
\* nothing but at most two slashes after an optional leading !; otherwise it
\* yields one rule, negative exactly when the line opens with !, whose
\* pattern is not empty and, put back between the one leading and the one
\* trailing slash its flags record, is the rest of the line; a first slash
\* is recorded as the trailing one; and hasSlash tells whether the pattern
\* holds a separator.
C26_ParseStripsInOrder ==
  (call.fn = "parseRuleLine" /\ result.returned) =>
    /\ Len(result.value) <= 1
    /\ (result.value = <<>>) =
          (TrimmedText = "" \/ HasPrefix(TrimmedText, "#") \/ CoreText \in {"", "/", "//"})
    /\ \A i \in 1..Len(result.value) :
          /\ result.value[i].pattern # ""
          /\ result.value[i].negative = Banged
          /\ RuleAsText(result.value[i]) = CoreText
          /\ result.value[i].dirOnly = HasSuffix(CoreText, "/")
          /\ result.value[i].anchored = (HasPrefix(CoreText, "/") /\ Len(CoreText) > 1)
          /\ result.value[i].hasSlash = (\E k \in 1..Len(result.value[i].pattern) :
                                            Ch(result.value[i].pattern, k) = "/")

\* The line "! //a/b//" has yielded a negative, anchored, directory-only
\* rule whose pattern keeps the second slash of each pair.
C26_Witness ==
  /\ call.fn = "parseRuleLine"
  /\ result.returned
  /\ call.text = "! //a/b//"
  /\ result.value = << [pattern |-> "/a/b/", negative |-> TRUE, anchored |-> TRUE,
                        dirOnly |-> TRUE, hasSlash |-> TRUE] >>

\* Whether a line of a rule file is blank or opens, after white space, with
\* a #; and whether it is a ! with nothing after it.
BlankOrComment(t) == TrimSpace(t) = "" \/ HasPrefix(TrimSpace(t), "#")

BareBang(t) == HasPrefix(TrimSpace(t), "!") /\ TrimSpace(Drop(TrimSpace(t), 1)) = ""

\* The numbers of the lines of the file of the call that state a rule, and
\* the number of the line that states the i-th of them.
RuleLinesOfCall ==
  {n \in 1..Len(call.lines) : ~BlankOrComment(call.lines[n]) /\ ~BareBang(call.lines[n])}

NthRuleLine(i) ==
  CHOOSE n \in RuleLinesOfCall : Cardinality({m \in RuleLinesOfCall : m <= n}) = i

\* The pattern a line of FileLines states, and whether it negates.
StatedPattern(t) ==
  LET u == TrimSpace(t)
      v == IF HasPrefix(u, "!") THEN TrimSpace(Drop(u, 1)) ELSE u
  IN IF HasSuffix(v, "/") THEN Take(v, Len(v) - 1) ELSE v

\* The lines of the file of the call whose pattern is the candidate's name.
LinesNaming == {n \in RuleLinesOfCall :
                  \/ StatedPattern(call.lines[n]) = call.rel
                  \/ StatedPattern(call.lines[n]) = "*.tmp" /\ HasSuffix(call.rel, ".tmp")}

\* C27: the loaded set holds one rule for every line that is neither blank
\* nor a comment nor a bare !, none for the other lines, and the i-th rule
\* is the one the i-th such line states; the verdict of match on a
\* candidate is that of the last line, in file order, whose rule matches
\* it.
C27_RulesInLineOrder ==
  (call.fn = "loadGitIgnore" /\ result.returned) =>
    /\ ~result.value.gi.nil
    /\ Len(result.value.gi.rules) = Cardinality(RuleLinesOfCall)
    /\ Len(result.value.gi.rules) <= Len(call.lines)
    /\ \A i \in 1..Len(result.value.gi.rules) :
          /\ result.value.gi.rules[i].pattern = StatedPattern(call.lines[NthRuleLine(i)])
          /\ result.value.gi.rules[i].negative =
                HasPrefix(TrimSpace(call.lines[NthRuleLine(i)]), "!")
    /\ result.value.hit =
          (/\ LinesNaming # {}
           /\ \E n \in LinesNaming :
                 /\ \A m \in LinesNaming : m <= n
                 /\ ~HasPrefix(TrimSpace(call.lines[n]), "!"))

\* A file of a comment, the rule *.tmp and the rule !keep.tmp has been
\* loaded as two rules in that order, and keep.tmp is not excluded.
C27_Witness ==
  /\ call.fn = "loadGitIgnore"
  /\ result.returned
  /\ call.lines = <<"# *.tmp", "*.tmp", "!keep.tmp">>
  /\ call.rel = "keep.tmp"
  /\ Len(result.value.gi.rules) = 2
  /\ result.value.gi.rules[1].pattern = "*.tmp"
  /\ result.value.gi.rules[2].negative
  /\ ~result.value.hit

\* The directories below the root of a scan that cannot be listed, as the
\* walk names them.
FailingBelowRoot ==
  [s \in DOMAIN Scenarios |->
     {p \in DOMAIN Walked[s] : Walked[s][p].unreadable /\ p # Scenarios[s].root}]

\* The files of a scan the callback sends a job for when it is called on
\* them, and those of them that open and read to their end.
Sendable == [s \in DOMAIN Scenarios |-> {p \in DOMAIN Walked[s] : Walked[s][p].send # <<>>}]

SoundFiles ==
  [s \in DOMAIN Scenarios |->
     {p \in Sendable[s] :
        LET n == Scenarios[s].fs[AbsPath(Scenarios[s].cwd, p)] IN ~n.deny /\ ~n.ioErr}]

\* The step of the walk at a directory below the root that cannot be listed
\* goes on to the entries that were pending and leaves the error of the
\* walk as it was.
StepsOverFailingEntry ==
  (pcMain = "walk" /\ pending # <<>> /\ Head(pending) \in FailingBelowRoot[scn]
     /\ visited' # visited)
    => (pending' = Tail(pending) /\ walkErr' = walkErr)

\* C28: the walk steps over a directory below the root that cannot be
\* listed; a scan that met one returns a nil error, has sent a job for every
\* file elsewhere that the callback sends, and returns the records of those
\* that can be read.
C28_EntryErrorSwallowed ==
  /\ [][StepsOverFailingEntry]_vars
  /\ []((ret.returned /\ visited \cap FailingBelowRoot[scn] # {}) =>
          /\ ret.err = "nil"
          /\ \A p \in Sendable[scn] : Walked[scn][p].send[1] \in Range(sent)
          /\ \A p \in SoundFiles[scn] :
                RecordsOfFile(Scenarios[scn], AbsPath(Scenarios[scn].cwd, p))
                  \subseteq Range(ret.todos))

\* The scan of /x has returned without an error after the walk met the
\* unreadable /x/d, with the record of /x/e/z.go, which the walk reaches
\* after it.
C28_Witness ==
  /\ scn = 5
  /\ ret.returned
  /\ "/x/d" \in visited
  /\ ret.err = "nil"
  /\ \E i \in 1..Len(ret.todos) : ret.todos[i].File = "e/z.go" /\ ret.todos[i].Tag = "TODO"

\* The scans whose callback answers SkipDir at the root: the root is a
\* directory whose name, as the walk reports it (the last element of the
\* root as written), is .git or an ignored name, or whose path relative to
\* the repository root the rules exclude as a directory.
RootSkipped == {s \in DOMAIN Scenarios : SkipsDir(s, Scenarios[s].root)}

\* The scans that meet each of the three conditions.
RootNamedDotGit == {s \in RootSkipped : Base[Scenarios[s].root] = ".git"}

RootNamedIgnored == {s \in RootSkipped : Base[Scenarios[s].root] \in TrimmedNames(Scenarios[s])}

RootExcludedByRules ==
  {s \in RootSkipped \ (RootNamedDotGit \cup RootNamedIgnored) :
     Rel[LocalsOf[s].repoRoot, Scenarios[s].root] \in {".", "vendor"}}

\* C29: a scan whose root is named .git or by the ignore set, or is
\* excluded as a directory by the rules, visits nothing but the root, sends
\* no job, and returns no records and a nil error.
C29_ChecksApplyToRoot ==
  /\ RootNamedDotGit # {} /\ RootNamedIgnored # {}
  /\ \E s, t \in RootExcludedByRules :
        /\ LocalsOf[s].gi.rules[1].pattern = "*"
        /\ LocalsOf[t].gi.rules[1].pattern = ".*"
  /\ scn \in RootSkipped =>
        /\ visited \subseteq {Scenarios[scn].root}
        /\ sent = <<>>
        /\ todos = <<>>
        /\ walkErr = "nil"
        /\ ret.returned => (ret.todos = <<>> /\ ret.err = "nil")

\* The scan of the repository /h, whose one rule * matches the path "." of
\* the root, has returned after the walk visited the root and nothing else.
C29_Witness ==
  /\ Scenarios[scn].root = "/h"
  /\ gi.rules = << [pattern |-> "*", negative |-> FALSE, anchored |-> FALSE,
                    dirOnly |-> FALSE, hasSlash |-> FALSE] >>
  /\ repoRoot = "/h"
  /\ visited = {"/h"}
  /\ ret.returned
  /\ ret.todos = <<>>

\* The directories strictly between the repository root and the root of a
\* scan, as paths relative to the repository root, that the rules exclude.
ExcludedAboveRoot ==
  [s \in DOMAIN Scenarios |->
     LET rel == Rel[LocalsOf[s].repoRoot, Scenarios[s].root]
     IN IF LocalsOf[s].gi.nil THEN {}
        ELSE {Take(rel, i - 1) : i \in {j \in 2..Len(rel) :
                 Ch(rel, j) = "/" /\ match(LocalsOf[s].gi, Take(rel, j - 1), TRUE)}}]

\* The scans whose root lies strictly inside an excluded directory and is
\* not itself skipped.
RootInsideExcluded ==
  {s \in DOMAIN Scenarios : ExcludedAboveRoot[s] # {} /\ s \notin RootSkipped}

\* The files of a scan that no directory from the root down to them skips
\* and that the rules do not exclude by their own path.
OwnPathKept ==
  [s \in DOMAIN Scenarios |->
     {p \in FilesUnder(Scenarios[s]) :
        /\ \A d \in DOMAIN Walked[s] :
              (d = p \/ HasPrefix(p, d \o "/")) => ~SkipsDir(s, d)
        /\ LocalsOf[s].gi.nil \/ ~match(LocalsOf[s].gi, Rel[LocalsOf[s].repoRoot, p], FALSE)}]

\* C30: a scan whose root lies strictly inside a directory the rules
\* exclude, once it has returned, has visited and sent every file below the
\* root that the rules do not exclude by its own path, and returns their
\* records.
C30_RulesOnlyOnVisitedEntries ==
  (scn \in RootInsideExcluded /\ ret.returned) =>
    /\ OwnPathKept[scn] # {}
    /\ \A p \in OwnPathKept[scn] :
          /\ p \in visited
          /\ \E k \in 1..Len(sent) : sent[k].rel = Rel[AbsRoot(Scenarios[scn]), p]
          /\ RecordsOfFile(Scenarios[scn], p) \subseteq Range(ret.todos)

\* The scan of /r/vendor/lib under the rule vendor/ of /r has returned the
\* record of v.go.
C30_Witness ==
  /\ Scenarios[scn].root = "/r/vendor/lib"
  /\ repoRoot = "/r"
  /\ ExcludedAboveRoot[scn] = {"vendor"}
  /\ \E i \in 1..Len(gi.rules) : gi.rules[i].pattern = "vendor" /\ gi.rules[i].dirOnly
  /\ ret.returned
  /\ ret.todos = << [File |-> "v.go", Line |-> 1, Tag |-> "NOTE", Text |-> "vendored"] >>
====
